---- MODULE Spec2Model ----
(***************************************************************************)
(* Idle-compute-instance detection of daemo-aws-agent: the classifier      *)
(* classifyIdle (src/awsEc2Idle.ts) and the tool detectIdleEc2             *)
(* (src/AWSFunctions.ts) that lists instances, fetches their metric        *)
(* aggregates, classifies each instance and ranks the candidates.          *)
(*                                                                         *)
(* Representation of JavaScript values:                                    *)
(*   - an optional value (a field that may be undefined) is a sequence of  *)
(*     length at most one: << >> is undefined, <<v>> is the value v;       *)
(*   - cpuAvg is a percentage held in thousandths of a percent (1.5% is    *)
(*     1500), so that toFixed(2) has digits to round away;                 *)
(*   - byte totals are held in tenths of a byte (CloudWatch values are     *)
(*     doubles), so that Math.round has a fraction to round away;          *)
(*   - a Record<string,string> is a function from its own keys;            *)
(*   - a reason string is a record: its template ("line") and the values   *)
(*     interpolated into it.                                               *)
(***************************************************************************)
EXTENDS Integers, Sequences, FiniteSets, TLC

VARIABLES
    \* ---- one detectIdleEc2 invocation ----
    pc,                  \* position in detectIdleEc2
    args,                \* its parsed arguments {lookbackDays, maxInstances}
    listing,             \* locals of listEc2InstancesCapped while it runs
    inventory,           \* every record DescribeInstances has returned so far
    instances,           \* const instances (listRunningInstancesCapped)
    metricCall,          \* arguments getIdleMetricsForInstances was called with
    metricsByInstanceId, \* its result
    classified,          \* candidates as instances.map(classifyIdle) built them
    result,              \* the value returned: {scanned, candidates}
    \* ---- direct calls of the exported classifyIdle ----
    cpc,                 \* how many calls were made on the same arguments
    cIn,                 \* the argument objects, as they are on the heap now
    cIn0,                \* the argument objects as the caller built them
    cOut1,               \* Candidate returned by the first call
    cOut2,               \* Candidate returned by the second call
    \* ---- one call of the exported listEc2InstancesSimple ----
    lpc,                 \* position in listEc2InstancesCapped
    lArgs,               \* {maxInstances, instanceStates}
    lInstances,          \* const instances, the accumulator
    lNextToken,          \* let nextToken
    lRequests,           \* every DescribeInstances request sent, in order
    lResponses,          \* every response received, in order
    lResult,             \* the value the call resolved with
    \* ---- one call of the exported getIdleMetricsForInstances ----
    mpc,                 \* position in getIdleMetricsForInstances
    mArgs,               \* {instanceIds, lookbackDays, periodSeconds}
    mQueryChunks,        \* const queryChunks
    mChunk,              \* index of the chunk the for-loop is at (from 1)
    mNextToken,          \* let nextToken
    mAgg,                \* const aggregationByInstance
    mRequests,           \* every GetMetricData request sent, in order
    mResponses,          \* every response received, in order
    mResult,             \* the value the call resolved with
    mWindow,             \* const startTime, endTime (milliseconds)
    mClock,              \* the wall clock new Date() reads (milliseconds)
    \* ---- one call of queryMysqlRds ----
    rpc,                 \* position in queryMysqlRds
    rArgs,               \* {sql, maxRows} and the environment of the call
    rLog,                \* what the mysql2 driver was asked to do, in order
    rPending,            \* outcome of the try block, held while finally runs
    rResult,             \* how the call settled
    \* ---- the S3 tools of AwsFunctions, called concurrently ----
    sEnv,                \* process.env as the module read it (Undefined: not loaded)
    allowedBuckets,      \* const allowedBuckets (AWSFunctions.ts)
    s3Clients,           \* const s3Clients: pairs <<region, client>>
    bucketRegionCache,   \* const bucketRegionCache: pairs <<bucket, region>>
    sCreated,            \* region of every `new S3Client`, in order of creation
    spc,                 \* position of each tool call
    sArgs,               \* arguments of each tool call
    sLocal,              \* locals of each tool call and of the awsS3 function it is in
    sSent,               \* every request each tool call has sent, in order
    sResult,             \* how each tool call settled
    \* ---- one GET request served by serveStatic ----
    wpc,                 \* position in serveStatic
    wRequest,            \* reqUrlPath
    wReads,              \* every path handed to fs.readFile, in order
    wResponse            \* the response written, or the error thrown

vars == <<pc, args, listing, inventory, instances, metricCall, metricsByInstanceId,
          classified, result, cpc, cIn, cIn0, cOut1, cOut2,
          lpc, lArgs, lInstances, lNextToken, lRequests, lResponses, lResult,
          mpc, mArgs, mQueryChunks, mChunk, mNextToken, mAgg, mRequests,
          mResponses, mResult, mWindow, mClock,
          rpc, rArgs, rLog, rPending, rResult,
          sEnv, allowedBuckets, s3Clients, bucketRegionCache, sCreated,
          spc, sArgs, sLocal, sSent, sResult,
          wpc, wRequest, wReads, wResponse>>

pipeVars == <<pc, args, listing, inventory, instances, metricCall, metricsByInstanceId,
              classified, result>>
callVars == <<cpc, cIn, cIn0, cOut1, cOut2>>
listVars == <<lpc, lArgs, lInstances, lNextToken, lRequests, lResponses, lResult>>
metricVars == <<mpc, mArgs, mQueryChunks, mChunk, mNextToken, mAgg, mRequests, mResponses, mResult, mWindow, mClock>>
rdsVars == <<rpc, rArgs, rLog, rPending, rResult>>
s3Vars == <<sEnv, allowedBuckets, s3Clients, bucketRegionCache, sCreated, spc, sArgs, sLocal, sSent, sResult>>
webVars == <<wpc, wRequest, wReads, wResponse>>
serviceVars == <<rdsVars, s3Vars, webVars>>

-----------------------------------------------------------------------------
(* JavaScript values *)

Undefined == << >>
Some(v) == <<v>>
IsDefined(o) == o # << >>

\* a ?? d
OrElse(o, d) == IF o = << >> THEN d ELSE o[1]

\* Units of the number representation.
Pct(p) == p * 1000          \* p percent, in thousandths of a percent
Bytes(b) == b * 10          \* b bytes, in tenths of a byte

\* Number.prototype.toFixed(2) of a percentage: the nearest hundredth, as the
\* digits before and after the point, as text.
toFixed2(milli) ==
    LET centi == (milli + 5) \div 10
    IN  <<centi \div 100, ".", (centi % 100) \div 10, centi % 10>>

\* Math.round of a byte total: the nearest integer, halves upwards.
MathRound(tenths) == (tenths + 5) \div 10

\* Number.isFinite: every number of this model is an integer; NaN and the
\* infinities are not among the aggregates (non-finite datapoints are
\* filtered out before aggregating, awsEc2Idle.ts:246-249).
NumberIsFinite(x) == x \in Int

-----------------------------------------------------------------------------
(* classifyIdle, src/awsEc2Idle.ts:295-356 *)

\* const tags = inst.tags ?? {};
\* const isExcludedByTag = excludeTagKeys.some((tagKey) => tagKey in tags);
isExcludedByTag(inst, excludeTagKeys) ==
    LET tags == OrElse(inst.tags, << >>)
    IN  \E i \in 1..Len(excludeTagKeys) : excludeTagKeys[i] \in DOMAIN tags

cpuPoints(metrics) == OrElse(metrics.dataPointsCpu, 0)
netInPoints(metrics) == OrElse(metrics.dataPointsNetIn, 0)
netOutPoints(metrics) == OrElse(metrics.dataPointsNetOut, 0)

hasEnoughMetricCoverage(metrics, minDataPoints) ==
    /\ cpuPoints(metrics) >= minDataPoints
    /\ netInPoints(metrics) >= minDataPoints
    /\ netOutPoints(metrics) >= minDataPoints

\* Fault variant: the comparison written < instead of <=.
cpuLooksIdle_Strict(metrics, cpuThresholdPct) ==
    /\ IsDefined(metrics.cpuAvg)
    /\ metrics.cpuAvg[1] < Pct(cpuThresholdPct)

cpuLooksIdle(metrics, cpuThresholdPct) ==
    /\ IsDefined(metrics.cpuAvg)
    /\ metrics.cpuAvg[1] <= Pct(cpuThresholdPct)

netTotalBytes(metrics) ==
    OrElse(metrics.netInBytesTotal, 0) + OrElse(metrics.netOutBytesTotal, 0)

networkLooksIdle(metrics, netTotalThresholdBytes) ==
    /\ NumberIsFinite(netTotalBytes(metrics))
    /\ netTotalBytes(metrics) <= Bytes(netTotalThresholdBytes)

\* The reason strings, by template.
ExcludedLine(excludeTagKeys) ==
    [line |-> "Excluded (has one of these tag keys)", keys |-> excludeTagKeys]

LowCoverageLine(metrics, minDataPoints) ==
    [line |-> "Low metric coverage",
     cpu |-> cpuPoints(metrics), netIn |-> netInPoints(metrics),
     netOut |-> netOutPoints(metrics), min |-> minDataPoints]

\* `CPU avg: ${metrics.cpuAvg?.toFixed(2) ?? "N/A"}% (threshold ...%)`
CpuAvgLine(metrics, cpuThresholdPct) ==
    [line |-> "CPU avg",
     value |-> IF IsDefined(metrics.cpuAvg)
               THEN toFixed2(metrics.cpuAvg[1])
               ELSE <<"N/A">>,
     threshold |-> cpuThresholdPct]

NetworkTotalLine(metrics, netTotalThresholdBytes) ==
    [line |-> "Network total",
     bytes |-> MathRound(netTotalBytes(metrics)),
     threshold |-> netTotalThresholdBytes]

\* Fault variant: the two summary lines pushed before the checks.
reasons_SummaryFirst(inst, metrics, cpuThresholdPct, netTotalThresholdBytes, minDataPoints, excludeTagKeys) ==
    <<CpuAvgLine(metrics, cpuThresholdPct)>>
    \o <<NetworkTotalLine(metrics, netTotalThresholdBytes)>>
    \o (IF isExcludedByTag(inst, excludeTagKeys)
        THEN <<ExcludedLine(excludeTagKeys)>> ELSE << >>)
    \o (IF ~hasEnoughMetricCoverage(metrics, minDataPoints)
        THEN <<LowCoverageLine(metrics, minDataPoints)>> ELSE << >>)

\* Fault variant: the coverage check written as the else-branch of the
\* exclusion check.
reasons_CoverageElse(inst, metrics, cpuThresholdPct, netTotalThresholdBytes, minDataPoints, excludeTagKeys) ==
    (IF isExcludedByTag(inst, excludeTagKeys)
        THEN <<ExcludedLine(excludeTagKeys)>>
        ELSE IF ~hasEnoughMetricCoverage(metrics, minDataPoints)
             THEN <<LowCoverageLine(metrics, minDataPoints)>> ELSE << >>)
    \o <<CpuAvgLine(metrics, cpuThresholdPct)>>
    \o <<NetworkTotalLine(metrics, netTotalThresholdBytes)>>

\* const reasons = []; ... reasons.push(...) in source order.
reasons(inst, metrics, cpuThresholdPct, netTotalThresholdBytes, minDataPoints, excludeTagKeys) ==
    (IF isExcludedByTag(inst, excludeTagKeys)
        THEN <<ExcludedLine(excludeTagKeys)>> ELSE << >>)
    \o (IF ~hasEnoughMetricCoverage(metrics, minDataPoints)
        THEN <<LowCoverageLine(metrics, minDataPoints)>> ELSE << >>)
    \o <<CpuAvgLine(metrics, cpuThresholdPct)>>
    \o <<NetworkTotalLine(metrics, netTotalThresholdBytes)>>

\* Fault variant: the MEDIUM branch tested before the HIGH branch.
confidenceOf_CoverageFirst(excluded, coverage, cpuOk, netOk) ==
    IF excluded THEN "LOW"
    ELSE IF coverage THEN "MEDIUM"
    ELSE IF coverage /\ cpuOk /\ netOk THEN "HIGH"
    ELSE "LOW"

\* Fault variant: the cascade without its exclusion branch.
confidenceOf_NoExclusion(excluded, coverage, cpuOk, netOk) ==
    IF coverage /\ cpuOk /\ netOk THEN "HIGH"
    ELSE IF coverage THEN "MEDIUM"
    ELSE "LOW"

\* Fault variant: HIGH given without looking at the traffic.
confidenceOf_HighWithoutNetwork(excluded, coverage, cpuOk, netOk) ==
    IF excluded THEN "LOW"
    ELSE IF coverage /\ cpuOk THEN "HIGH"
    ELSE IF coverage THEN "MEDIUM"
    ELSE "LOW"

\* let confidence = "LOW"; if ... else if ... else if ...
confidenceOf(excluded, coverage, cpuOk, netOk) ==
    IF excluded THEN "LOW"
    ELSE IF coverage /\ cpuOk /\ netOk THEN "HIGH"
    ELSE IF coverage THEN "MEDIUM"
    ELSE "LOW"

\* const idle = !isExcludedByTag && hasEnoughMetricCoverage && cpuLooksIdle && networkLooksIdle;
idleOf(excluded, coverage, cpuOk, netOk) ==
    ~excluded /\ coverage /\ cpuOk /\ netOk

\* return { ...inst, ...metrics, idle, confidence, reason: reasons }
\* (f @@ g keeps f where both are defined: the later spread comes first).
classifyIdle(inst, metrics, cpuThresholdPct, netTotalThresholdBytes, minDataPoints, excludeTagKeys) ==
    LET excluded == isExcludedByTag(inst, excludeTagKeys)
        coverage == hasEnoughMetricCoverage(metrics, minDataPoints)
        cpuOk == cpuLooksIdle(metrics, cpuThresholdPct)
        netOk == networkLooksIdle(metrics, netTotalThresholdBytes)
    IN  [idle |-> idleOf(excluded, coverage, cpuOk, netOk),
         confidence |-> confidenceOf(excluded, coverage, cpuOk, netOk),
         reason |-> reasons(inst, metrics, cpuThresholdPct,
                            netTotalThresholdBytes, minDataPoints,
                            excludeTagKeys)]
        @@ metrics @@ inst

-----------------------------------------------------------------------------
(* Instance inventory, src/awsEc2Idle.ts:50-132 *)

\* An instance ID is the number n of "i-n".
\* function tagsToRecord(tags?: Instance["Tags"]): Record<string, string>
\* A tag is kept only if its Key is truthy and its Value is a string; a later
\* tag of the same key overwrites an earlier one.
tagKept(tag) ==
    /\ IsDefined(tag.Key) /\ tag.Key[1] # ""
    /\ IsDefined(tag.Value)

tagsToRecord(tags) ==
    LET list == OrElse(tags, << >>)
        kept == {i \in 1..Len(list) : tagKept(list[i])}
        last(k) == CHOOSE i \in kept :
                      /\ list[i].Key[1] = k
                      /\ \A j \in kept : list[j].Key[1] = k => j <= i
    IN  [k \in {list[i].Key[1] : i \in kept} |-> list[last(k)].Value[1]]

\* tags?.Name, when it is a string with something but blanks in it.
\* (Blank strings of this model are "" and "  ".)
getNameTag(tags) ==
    IF "Name" \in DOMAIN tags /\ tags["Name"] \notin {"", "  "}
    THEN Some(tags["Name"]) ELSE Undefined

\* instances.push({ instanceId, name, ..., tags }) for one upstream record.
\* The descriptive fields copied unread from the record (instanceType, state,
\* launchTime, availabilityZone) are carried as one field, "described".
toSummary(inst) ==
    LET tags == tagsToRecord(inst.Tags)
    IN  [instanceId |-> inst.InstanceId[1],
         name |-> getNameTag(tags),
         described |-> inst.Described,
         tags |-> Some(tags)]

\* Fault variant: the two loops over a response without the breaks at
\* maxInstances.
RECURSIVE collectPage_NoCap(_, _, _)
collectPage_NoCap(acc, items, maxInstances) ==
    IF items = << >> THEN acc
    ELSE IF ~IsDefined(Head(items).InstanceId)
         THEN collectPage_NoCap(acc, Tail(items), maxInstances)
    ELSE collectPage_NoCap(Append(acc, toSummary(Head(items))), Tail(items), maxInstances)

\* The two nested for-loops over one response (lines 99-117): records without
\* an InstanceId are skipped, pushing stops at maxInstances.
RECURSIVE collectPage(_, _, _)
collectPage(acc, items, maxInstances) ==
    IF items = << >> THEN acc
    ELSE IF ~IsDefined(Head(items).InstanceId)
         THEN collectPage(acc, Tail(items), maxInstances)
    ELSE LET acc2 == Append(acc, toSummary(Head(items)))
         IN  IF Len(acc2) >= maxInstances THEN acc2
             ELSE collectPage(acc2, Tail(items), maxInstances)

-----------------------------------------------------------------------------
(* Ranking, src/AWSFunctions.ts:571-588 *)

confidenceRank(value) ==
    IF value = "HIGH" THEN 0 ELSE IF value = "MEDIUM" THEN 1 ELSE 2

\* a.cpuAvg ?? Number.POSITIVE_INFINITY, as an extended number.
Finite(v) == [inf |-> FALSE, v |-> v]
POSITIVE_INFINITY == [inf |-> TRUE, v |-> 0]
cpuOrInfinity(c) ==
    IF IsDefined(c.cpuAvg) THEN Finite(c.cpuAvg[1]) ELSE POSITIVE_INFINITY

\* aCpu - bCpu for aCpu !== bCpu: the sign of the difference.
cpuDiff(aCpu, bCpu) ==
    IF aCpu.inf THEN 1 ELSE IF bCpu.inf THEN -1 ELSE aCpu.v - bCpu.v

netOf(c) == OrElse(c.netInBytesTotal, 0) + OrElse(c.netOutBytesTotal, 0)

\* Fault variant: a.cpuAvg ?? 0 in place of a.cpuAvg ?? POSITIVE_INFINITY.
compareCandidates_UndefinedAsZero(a, b) ==
    IF a.idle # b.idle THEN (IF a.idle THEN -1 ELSE 1)
    ELSE LET rankDiff == confidenceRank(a.confidence)
                         - confidenceRank(b.confidence)
         IN  IF rankDiff # 0 THEN rankDiff
             ELSE IF OrElse(a.cpuAvg, 0) # OrElse(b.cpuAvg, 0)
                  THEN OrElse(a.cpuAvg, 0) - OrElse(b.cpuAvg, 0)
             ELSE netOf(a) - netOf(b)

\* The comparator handed to candidates.sort: negative, zero or positive.
compareCandidates(a, b) ==
    IF a.idle # b.idle THEN (IF a.idle THEN -1 ELSE 1)
    ELSE LET rankDiff == confidenceRank(a.confidence)
                         - confidenceRank(b.confidence)
         IN  IF rankDiff # 0 THEN rankDiff
             ELSE IF cpuOrInfinity(a) # cpuOrInfinity(b)
                  THEN cpuDiff(cpuOrInfinity(a), cpuOrInfinity(b))
             ELSE netOf(a) - netOf(b)

\* Fault variant: a ranking that keeps one candidate per sort key (an element
\* comparing equal to one already placed is dropped).
insertSorted_DropsTies(sorted, x) ==
    IF \E i \in 1..Len(sorted) : compareCandidates(sorted[i], x) = 0
    THEN sorted
    ELSE LET k == CHOOSE j \in 0..Len(sorted) :
                     /\ \A i \in (j + 1)..Len(sorted) :
                           compareCandidates(sorted[i], x) > 0
                     /\ j > 0 => compareCandidates(sorted[j], x) <= 0
         IN  SubSeq(sorted, 1, k) \o <<x>> \o SubSeq(sorted, k + 1, Len(sorted))

\* Fault variant: an unstable ranking, each element inserted in front of the
\* elements that compare equal to it.
insertSorted_BeforeEquals(sorted, x) ==
    LET k == CHOOSE j \in 0..Len(sorted) :
                /\ \A i \in (j + 1)..Len(sorted) :
                      compareCandidates(sorted[i], x) >= 0
                /\ j > 0 => compareCandidates(sorted[j], x) < 0
    IN  SubSeq(sorted, 1, k) \o <<x>> \o SubSeq(sorted, k + 1, Len(sorted))

\* Array.prototype.sort is a stable sort: insertion of each element, in
\* order, behind the last element that does not compare greater than it.
insertSorted(sorted, x) ==
    LET k == CHOOSE j \in 0..Len(sorted) :
                /\ \A i \in (j + 1)..Len(sorted) :
                      compareCandidates(sorted[i], x) > 0
                /\ j > 0 => compareCandidates(sorted[j], x) <= 0
    IN  SubSeq(sorted, 1, k) \o <<x>> \o SubSeq(sorted, k + 1, Len(sorted))

RECURSIVE sortCandidates(_)
sortCandidates(cs) ==
    IF cs = << >> THEN << >>
    ELSE insertSorted(sortCandidates(SubSeq(cs, 1, Len(cs) - 1)), cs[Len(cs)])

-----------------------------------------------------------------------------
(* detectIdleEc2, src/AWSFunctions.ts:538-594 *)

periodSeconds == 3600
cpuThresholdPct == 2
netTotalThresholdBytes == 50 * 1024 * 1024
minDataPoints == 24
excludeTagKeys == <<"DoNotStop", "Critical">>

\* metricsByInstanceId[instance.instanceId] ?? {}
EmptyMetrics ==
    [cpuAvg |-> Undefined, netInBytesTotal |-> Undefined,
     netOutBytesTotal |-> Undefined, dataPointsCpu |-> Undefined,
     dataPointsNetIn |-> Undefined, dataPointsNetOut |-> Undefined]

metricsFor(byId, instanceId) ==
    IF instanceId \in DOMAIN byId THEN byId[instanceId] ELSE EmptyMetrics

\* Fault variant: two positional number arguments of classifyIdle swapped
\* (minDataPoints passed as cpuThresholdPct and the reverse).
classifyAll_SwappedArgs(insts, byId) ==
    [i \in 1..Len(insts) |->
        classifyIdle(insts[i], metricsFor(byId, insts[i].instanceId),
                     minDataPoints, netTotalThresholdBytes, cpuThresholdPct,
                     excludeTagKeys)]

\* instances.map((instance) => classifyIdle(instance, ..., excludeTagKeys))
classifyAll(insts, byId) ==
    [i \in 1..Len(insts) |->
        classifyIdle(insts[i], metricsFor(byId, insts[i].instanceId),
                     cpuThresholdPct, netTotalThresholdBytes, minDataPoints,
                     excludeTagKeys)]

\* candidates.sort(...); return { scanned: candidates.length, candidates }
detectResult(candidates) ==
    LET ranked == sortCandidates(candidates)
    IN  [scanned |-> Len(ranked), candidates |-> ranked]

-----------------------------------------------------------------------------
(* The environment of one invocation: what the tool is called with and what *)
(* the two upstream services answer.                                        *)

MaxInstances == 3   \* most records the upstream inventory holds; largest small maxInstances
MaxPages == 2       \* most pages of one listing, and of one metric chunk

LookbackChoices == {7}

Tag(k, v) == [Key |-> k, Value |-> v]

\* Tag lists of upstream records (Instance["Tags"]: Key and Value optional).
UpstreamTagLists ==
    { Undefined,
      Some(<<Tag(Some("Name"), Some("web")), Tag(Some("Critical"), Some("true"))>>),
      Some(<<Tag(Some("Critical"), Undefined)>>),
      Some(<<Tag(Some("DoNotStop"), Some("")), Tag(Some("Name"), Some("  "))>>) }

\* The shapes of an upstream record: with an InstanceId or without.
UpstreamShapes ==
    [hasId : {TRUE}, Tags : UpstreamTagLists]
    \cup {[hasId |-> FALSE, Tags |-> Undefined]}

\* The record at position n of the enumeration; its ID is n.
upstreamRecord(n, shape) ==
    [InstanceId |-> IF shape.hasId THEN Some(n) ELSE Undefined,
     Described |-> "t3.micro/running",
     Tags |-> shape.Tags]

\* Sequences of at most n shapes.
ShapeSeqs(n) == UNION {[1..k -> UpstreamShapes] : k \in 0..n}

MiB == 1024 * 1024

Metrics(cpu, netIn, netOut, nCpu, nIn, nOut) ==
    [cpuAvg |-> cpu, netInBytesTotal |-> netIn, netOutBytesTotal |-> netOut,
     dataPointsCpu |-> nCpu, dataPointsNetIn |-> nIn, dataPointsNetOut |-> nOut]

\* Aggregates getIdleMetricsForInstances can return for one instance.
MetricProfiles ==
    { Metrics(Some(1500), Some(Bytes(MiB)), Some(Bytes(MiB)), Some(30), Some(30), Some(30)),
      Metrics(Some(Pct(2)), Some(Bytes(25 * MiB)), Some(Bytes(25 * MiB)), Some(24), Some(24), Some(24)),
      Metrics(Some(1500), Some(Bytes(MiB)), Some(Bytes(MiB)), Some(5), Some(30), Some(30)),
      Metrics(Some(2004), Some(Bytes(MiB)), Some(Bytes(MiB)), Some(30), Some(30), Some(30)),
      Metrics(Some(1500), Some(Bytes(25 * MiB) + 5), Some(Bytes(25 * MiB)), Some(24), Some(24), Some(24)),
      EmptyMetrics }

-----------------------------------------------------------------------------
(* Actions of one detectIdleEc2 invocation *)

\* let nextToken = undefined, before the first page; also the value the
\* locals are given here when the function is not running.
NotListing == [pages |-> 0, nextToken |-> Undefined]

Invoke ==
    /\ pc = "idle"
    /\ \E lookbackDays \in LookbackChoices, maxInstances \in 1..MaxInstances :
          args' = [lookbackDays |-> lookbackDays, maxInstances |-> maxInstances]
    /\ pc' = "listing"
    /\ UNCHANGED <<listing, inventory, instances, metricCall,
                   metricsByInstanceId, classified, result>>
    /\ UNCHANGED <<callVars, listVars, metricVars, serviceVars>>

\* Fault variant: the metric call is made from the instances of each page as
\* it arrives, the listing still going on.
DescribeInstancesReturns_MetricsPerPage ==
    /\ pc = "listing"
    /\ \E items \in ShapeSeqs(MaxInstances - Len(inventory)),
          more \in BOOLEAN :
          LET page == [i \in 1..Len(items) |->
                          upstreamRecord(Len(inventory) + i, items[i])]
              collected == collectPage(instances, page, args.maxInstances)
              pageNo == listing.pages + 1
          IN  /\ more => pageNo < MaxPages
              /\ inventory' = inventory \o page
              /\ instances' = collected
              /\ metricCall' =
                    Some([instanceIds |-> [i \in 1..Len(collected) |->
                                              collected[i].instanceId],
                          lookbackDays |-> args.lookbackDays,
                          periodSeconds |-> periodSeconds])
              /\ IF more /\ Len(collected) < args.maxInstances
                 THEN /\ pc' = "listing"
                      /\ listing' = [pages |-> pageNo, nextToken |-> Some(pageNo)]
                 ELSE /\ pc' = "metrics"
                      /\ listing' = NotListing
    /\ UNCHANGED <<args, metricsByInstanceId, classified, result>>
    /\ UNCHANGED <<callVars, listVars, metricVars, serviceVars>>

\* One pass of the while loop of listEc2InstancesCapped: DescribeInstances
\* answers with a page (token k names the page after page k) and the page is
\* collected; the loop ends at the cap or at a page without a token, and
\* detectIdleEc2 goes on to call getIdleMetricsForInstances.
DescribeInstancesReturns ==
    /\ pc = "listing"
    /\ \E items \in ShapeSeqs(MaxInstances - Len(inventory)),
          more \in BOOLEAN :
          LET page == [i \in 1..Len(items) |->
                          upstreamRecord(Len(inventory) + i, items[i])]
              collected == collectPage(instances, page, args.maxInstances)
              pageNo == listing.pages + 1
          IN  /\ more => pageNo < MaxPages
              /\ inventory' = inventory \o page
              /\ instances' = collected
              /\ IF more /\ Len(collected) < args.maxInstances
                 THEN /\ pc' = "listing"
                      /\ listing' = [pages |-> pageNo, nextToken |-> Some(pageNo)]
                      /\ UNCHANGED metricCall
                 ELSE /\ pc' = "metrics"
                      /\ listing' = NotListing
                      /\ metricCall' =
                            Some([instanceIds |-> [i \in 1..Len(collected) |->
                                                      collected[i].instanceId],
                                  lookbackDays |-> args.lookbackDays,
                                  periodSeconds |-> periodSeconds])
    /\ UNCHANGED <<args, metricsByInstanceId, classified, result>>
    /\ UNCHANGED <<callVars, listVars, metricVars, serviceVars>>

\* ec2Client.send rejects: the catch block rethrows.
DescribeInstancesFails ==
    /\ pc = "listing"
    /\ pc' = "failed"
    /\ UNCHANGED <<args, listing, inventory, instances, metricCall,
                   metricsByInstanceId, classified, result>>
    /\ UNCHANGED <<callVars, listVars, metricVars, serviceVars>>

\* getIdleMetricsForInstances resolves with one aggregate per instance ID;
\* the candidates are classified, ranked and returned.
GetMetricsReturns ==
    /\ pc = "metrics"
    /\ \E byId \in [{instances[i].instanceId : i \in 1..Len(instances)}
                      -> MetricProfiles] :
          /\ metricsByInstanceId' = byId
          /\ classified' = classifyAll(instances, byId)
          /\ result' = Some(detectResult(classifyAll(instances, byId)))
    /\ pc' = "done"
    /\ UNCHANGED <<args, listing, inventory, instances, metricCall>>
    /\ UNCHANGED <<callVars, listVars, metricVars, serviceVars>>

GetMetricsFails ==
    /\ pc = "metrics"
    /\ pc' = "failed"
    /\ UNCHANGED <<args, listing, inventory, instances, metricCall,
                   metricsByInstanceId, classified, result>>
    /\ UNCHANGED <<callVars, listVars, metricVars, serviceVars>>

CallsIdle ==
    /\ cpc = 0 /\ cIn = << >> /\ cIn0 = << >>
    /\ cOut1 = Undefined /\ cOut2 = Undefined

PipeIdle ==
    /\ pc = "idle"
    /\ args = << >>
    /\ listing = NotListing
    /\ inventory = << >>
    /\ instances = << >>
    /\ metricCall = Undefined
    /\ metricsByInstanceId = << >>
    /\ classified = << >>
    /\ result = Undefined

ListIdle ==
    /\ lpc = "idle"
    /\ lArgs = << >>
    /\ lInstances = << >>
    /\ lNextToken = Undefined
    /\ lRequests = << >>
    /\ lResponses = << >>
    /\ lResult = Undefined

MetricsIdle ==
    /\ mpc = "idle"
    /\ mArgs = << >>
    /\ mQueryChunks = << >>
    /\ mChunk = 0
    /\ mNextToken = Undefined
    /\ mAgg = << >>
    /\ mRequests = << >>
    /\ mResponses = << >>
    /\ mResult = Undefined
    /\ mWindow = << >>
    /\ mClock = 0

RdsIdle ==
    /\ rpc = "idle"
    /\ rArgs = << >>
    /\ rLog = << >>
    /\ rPending = Undefined
    /\ rResult = Undefined

\* The tool calls in flight at one time.
Procs == {1, 2}

S3Idle ==
    /\ sEnv = Undefined
    /\ allowedBuckets = << >>
    /\ s3Clients = {}
    /\ bucketRegionCache = {}
    /\ sCreated = << >>
    /\ spc = [p \in Procs |-> "idle"]
    /\ sArgs = [p \in Procs |-> << >>]
    /\ sLocal = [p \in Procs |-> << >>]
    /\ sSent = [p \in Procs |-> << >>]
    /\ sResult = [p \in Procs |-> Undefined]

WebIdle ==
    /\ wpc = "idle"
    /\ wRequest = Undefined
    /\ wReads = << >>
    /\ wResponse = Undefined

ServicesIdle == RdsIdle /\ S3Idle /\ WebIdle

Init == PipeIdle /\ CallsIdle /\ ListIdle /\ MetricsIdle /\ ServicesIdle

Next ==
    \/ Invoke
    \/ DescribeInstancesReturns
    \/ DescribeInstancesFails
    \/ GetMetricsReturns
    \/ GetMetricsFails

Spec == Init /\ [][Next]_vars

-----------------------------------------------------------------------------
(* Direct calls of classifyIdle: the arguments are drawn once, the function *)
(* is called on them twice.                                                 *)

\* Record<string,string> values an ec2InstanceSummary can carry as tags.
nameWeb == [k \in {"Name"} |-> "web"]
criticalWeb == [k \in {"Critical", "Name"} |-> IF k = "Name" THEN "web" ELSE "true"]
doNotStop == [k \in {"DoNotStop"} |-> ""]

SummaryTags ==
    {Undefined, Some(<< >>), Some(nameWeb), Some(criticalWeb), Some(doNotStop)}

Summaries ==
    {[instanceId |-> 1,
      name |-> getNameTag(OrElse(t, << >>)),
      described |-> "t3.micro/running",
      tags |-> t] : t \in SummaryTags}

CpuAvgs == {Undefined, Some(0), Some(1500), Some(Pct(2)), Some(2004)}
NetIns == {Undefined, Some(0), Some(Bytes(25 * MiB)), Some(Bytes(25 * MiB) + 5)}
NetOuts == {Undefined, Some(Bytes(MiB)), Some(Bytes(25 * MiB))}
PointCounts == {Undefined, Some(5), Some(24)}

AllMetrics ==
    {Metrics(c, i, o, nc, ni, no) :
        c \in CpuAvgs, i \in NetIns, o \in NetOuts,
        nc \in PointCounts, ni \in PointCounts, no \in PointCounts}

Policy(cpuPct, netBytes, minPoints, keys) ==
    [cpuThresholdPct |-> cpuPct, netTotalThresholdBytes |-> netBytes,
     minDataPoints |-> minPoints, excludeTagKeys |-> keys]

Policies ==
    { Policy(cpuThresholdPct, netTotalThresholdBytes, minDataPoints, excludeTagKeys),
      Policy(0, 0, 0, << >>),
      Policy(2, 50 * MiB, 5, <<"Name">>) }

ClassifyInputs ==
    {[inst |-> s, metrics |-> m, policy |-> p] :
        s \in Summaries, m \in AllMetrics, p \in Policies}

\* Fault variant: the defaulted datapoint count written back into the
\* caller's metrics object (metrics.dataPointsCpu ??= 0).
argsAfterCall_Normalised(in) ==
    [in EXCEPT !.metrics.dataPointsCpu = Some(OrElse(@, 0))]

\* classifyIdle reads inst, metrics and the policy and assigns to none of
\* them: the argument objects after the call are the ones before it.
argsAfterCall(in) == in

\* One call: classifyIdle(inst, metrics, ...) on the objects on the heap.
CallClassifyIdle ==
    /\ cpc < 2
    /\ LET out == classifyIdle(cIn.inst, cIn.metrics,
                               cIn.policy.cpuThresholdPct,
                               cIn.policy.netTotalThresholdBytes,
                               cIn.policy.minDataPoints,
                               cIn.policy.excludeTagKeys)
       IN  IF cpc = 0
           THEN cOut1' = Some(out) /\ UNCHANGED cOut2
           ELSE cOut2' = Some(out) /\ UNCHANGED cOut1
    /\ cIn' = argsAfterCall(cIn)
    /\ cpc' = cpc + 1
    /\ UNCHANGED cIn0
    /\ UNCHANGED <<pipeVars, listVars, metricVars, serviceVars>>

InitClassify ==
    /\ PipeIdle
    /\ ListIdle
    /\ MetricsIdle
    /\ ServicesIdle
    /\ cpc = 0
    /\ cIn \in ClassifyInputs
    /\ cIn0 = cIn
    /\ cOut1 = Undefined
    /\ cOut2 = Undefined

NextClassify == CallClassifyIdle

SpecClassify == InitClassify /\ [][NextClassify]_vars

-----------------------------------------------------------------------------
(* Properties of classifyIdle, checked under SpecClassify.                  *)
(* Each states its conditions on the arguments as the caller built them     *)
(* (cIn0) and reads the Candidate of the first call (cOut1).                *)

\* C1: classifyIdle returns idle=true if and only if the instance carries no
\* key of excludeTagKeys, all three datapoint counts (a missing count read as
\* 0) are >= minDataPoints, cpuAvg is defined and <= cpuThresholdPct, and
\* (netIn ?? 0) + (netOut ?? 0) <= netTotalThresholdBytes.
C1_IdleIffAllConditions ==
    cpc >= 1 =>
        LET m == cIn0.metrics
            p == cIn0.policy
            tagKeys == IF cIn0.inst.tags = << >> THEN {}
                       ELSE DOMAIN cIn0.inst.tags[1]
            count(c) == IF c = << >> THEN 0 ELSE c[1]
            num(v) == IF v = << >> THEN 0 ELSE v[1]
        IN  cOut1[1].idle <=>
              /\ \A i \in 1..Len(p.excludeTagKeys) :
                    p.excludeTagKeys[i] \notin tagKeys
              /\ count(m.dataPointsCpu) >= p.minDataPoints
              /\ count(m.dataPointsNetIn) >= p.minDataPoints
              /\ count(m.dataPointsNetOut) >= p.minDataPoints
              /\ m.cpuAvg # << >>
              /\ m.cpuAvg[1] <= p.cpuThresholdPct * 1000
              /\ num(m.netInBytesTotal) + num(m.netOutBytesTotal)
                    <= p.netTotalThresholdBytes * 10

\* An idle verdict whose cpuAvg sits exactly on the threshold.
C1_Witness ==
    /\ cpc >= 1
    /\ cOut1[1].idle
    /\ cIn0.metrics.cpuAvg = <<2000>>
    /\ cIn0.policy.cpuThresholdPct = 2

\* C2: for every Candidate produced by classifyIdle, idle=true implies
\* confidence=HIGH.
C2_IdleImpliesHigh ==
    cpc >= 1 => (cOut1[1].idle => cOut1[1].confidence = "HIGH")

C2_Witness ==
    /\ cpc >= 1
    /\ cOut1[1].idle
    /\ cOut1[1].confidence = "HIGH"
    /\ cIn0.policy.minDataPoints = 24

\* C3: confidence is LOW if the instance is tag-excluded; otherwise HIGH if
\* coverage is sufficient and the utilization and volume checks pass;
\* otherwise MEDIUM if coverage is sufficient; otherwise LOW.  A non-excluded
\* instance with a datapoint count below minDataPoints gets idle=false and
\* confidence=LOW.
C3_ConfidenceCascade ==
    cpc >= 1 =>
        LET m == cIn0.metrics
            p == cIn0.policy
            tagKeys == IF cIn0.inst.tags = << >> THEN {}
                       ELSE DOMAIN cIn0.inst.tags[1]
            count(c) == IF c = << >> THEN 0 ELSE c[1]
            num(v) == IF v = << >> THEN 0 ELSE v[1]
            excluded == \E i \in 1..Len(p.excludeTagKeys) :
                            p.excludeTagKeys[i] \in tagKeys
            coverage == \A c \in {m.dataPointsCpu, m.dataPointsNetIn,
                                  m.dataPointsNetOut} :
                            count(c) >= p.minDataPoints
            passes == /\ m.cpuAvg # << >>
                      /\ m.cpuAvg[1] <= p.cpuThresholdPct * 1000
                      /\ num(m.netInBytesTotal) + num(m.netOutBytesTotal)
                            <= p.netTotalThresholdBytes * 10
        IN  /\ excluded => cOut1[1].confidence = "LOW"
            /\ ~excluded /\ coverage /\ passes => cOut1[1].confidence = "HIGH"
            /\ ~excluded /\ coverage /\ ~passes => cOut1[1].confidence = "MEDIUM"
            /\ ~excluded /\ ~coverage =>
                  cOut1[1].confidence = "LOW" /\ ~cOut1[1].idle

\* cpuCount=5 under minDataPoints=24 on an instance without exclusion tag.
C3_Witness ==
    /\ cpc >= 1
    /\ cIn0.policy.minDataPoints = 24
    /\ cIn0.metrics.dataPointsCpu = <<5>>
    /\ cIn0.inst.tags = << >>
    /\ cOut1[1].confidence = "LOW"
    /\ ~cOut1[1].idle

\* C5: reason is non-empty and its last two entries are, in this order, the
\* utilization summary line (value or N/A, versus the threshold) and the
\* network-total summary line, whatever the verdict.
C5_LastTwoAreSummaries ==
    cpc >= 1 =>
        LET r == cOut1[1].reason
            n == Len(r)
        IN  /\ n >= 2
            /\ r[n - 1].line = "CPU avg"
            /\ (r[n - 1].value = <<"N/A">>) <=> (cIn0.metrics.cpuAvg = << >>)
            /\ r[n - 1].threshold = cIn0.policy.cpuThresholdPct
            /\ r[n].line = "Network total"
            /\ r[n].threshold = cIn0.policy.netTotalThresholdBytes

\* A non-idle verdict with both optional lines and no utilization value.
C5_Witness ==
    /\ cpc >= 1
    /\ Len(cOut1[1].reason) = 4
    /\ cIn0.metrics.cpuAvg = << >>
    /\ ~cOut1[1].idle

\* C6: reason is exactly: the exclusion line iff the instance is
\* tag-excluded, then the low-coverage line iff coverage is insufficient,
\* then the two summary lines; its length is 2 + (1 if excluded) + (1 if
\* coverage insufficient).
C6_ReasonSequence ==
    cpc >= 1 =>
        LET m == cIn0.metrics
            p == cIn0.policy
            tagKeys == IF cIn0.inst.tags = << >> THEN {}
                       ELSE DOMAIN cIn0.inst.tags[1]
            count(c) == IF c = << >> THEN 0 ELSE c[1]
            excluded == \E i \in 1..Len(p.excludeTagKeys) :
                            p.excludeTagKeys[i] \in tagKeys
            coverage == \A c \in {m.dataPointsCpu, m.dataPointsNetIn,
                                  m.dataPointsNetOut} :
                            count(c) >= p.minDataPoints
            r == cOut1[1].reason
            lines == [i \in 1..Len(r) |-> r[i].line]
        IN  /\ lines =
                  (IF excluded THEN <<"Excluded (has one of these tag keys)">>
                               ELSE << >>)
                  \o (IF coverage THEN << >> ELSE <<"Low metric coverage">>)
                  \o <<"CPU avg", "Network total">>
            /\ Len(r) = 2 + (IF excluded THEN 1 ELSE 0)
                          + (IF coverage THEN 0 ELSE 1)
            /\ excluded => r[1].keys = p.excludeTagKeys
            /\ ~coverage =>
                  LET c == r[Len(r) - 2]
                  IN  /\ c.cpu = count(m.dataPointsCpu)
                      /\ c.netIn = count(m.dataPointsNetIn)
                      /\ c.netOut = count(m.dataPointsNetOut)
                      /\ c.min = p.minDataPoints

\* Both optional lines present: exclusion first, coverage second.
C6_Witness ==
    /\ cpc >= 1
    /\ Len(cOut1[1].reason) = 4
    /\ cOut1[1].reason[1].line = "Excluded (has one of these tag keys)"
    /\ cOut1[1].reason[2].line = "Low metric coverage"

-----------------------------------------------------------------------------
(* Properties of detectIdleEc2, checked under Spec.                         *)

\* C4: every instance whose upstream tag list contains a key from
\* excludeTagKeys (DoNotStop or Critical), whatever that tag's value, is
\* reported with idle=false, confidence=LOW and the exclusion line as the
\* first entry of reason.
C4_TaggedInstancesExcluded ==
    pc = "done" =>
        \A k \in 1..Len(inventory) :
            LET rec == inventory[k]
                tagList == IF rec.Tags = << >> THEN << >> ELSE rec.Tags[1]
                tagged == \E t \in 1..Len(tagList) :
                              tagList[t].Key \in {<<"DoNotStop">>, <<"Critical">>}
            IN  \A c \in 1..Len(result[1].candidates) :
                    LET cand == result[1].candidates[c]
                    IN  (rec.InstanceId = <<cand.instanceId>> /\ tagged) =>
                            /\ ~cand.idle
                            /\ cand.confidence = "LOW"
                            /\ cand.reason[1].line =
                                  "Excluded (has one of these tag keys)"

\* C8: detectIdleEc2 classifies with periodSeconds=3600, cpuThresholdPct=2,
\* netTotalThresholdBytes=52428800, minDataPoints=24 and excludeTagKeys =
\* {DoNotStop, Critical}: a candidate is idle exactly when its tag mapping
\* has neither key, its three counts are >= 24, its cpuAvg is <= 2 and its
\* netIn+netOut is <= 52428800 bytes, and then its confidence is HIGH.
C8_FixedDefaults ==
    pc = "done" =>
        /\ metricCall[1].periodSeconds = 3600
        /\ \A c \in 1..Len(result[1].candidates) :
              LET cand == result[1].candidates[c]
                  count(n) == IF n = << >> THEN 0 ELSE n[1]
                  num(v) == IF v = << >> THEN 0 ELSE v[1]
                  qualifies ==
                      /\ "DoNotStop" \notin DOMAIN cand.tags[1]
                      /\ "Critical" \notin DOMAIN cand.tags[1]
                      /\ count(cand.dataPointsCpu) >= 24
                      /\ count(cand.dataPointsNetIn) >= 24
                      /\ count(cand.dataPointsNetOut) >= 24
                      /\ cand.cpuAvg # << >>
                      /\ cand.cpuAvg[1] <= 2000
                      /\ num(cand.netInBytesTotal) + num(cand.netOutBytesTotal)
                            <= 524288000
              IN  /\ cand.idle <=> qualifies
                  /\ qualifies => cand.confidence = "HIGH"

\* The scenario of the claim: cpuAvg=1.5, netIn=netOut=1 MiB, counts=30, no
\* exclusion tag, reported idle with confidence HIGH.
C8_Witness ==
    /\ pc = "done"
    /\ \E c \in 1..Len(result[1].candidates) :
          LET cand == result[1].candidates[c]
          IN  /\ cand.cpuAvg = <<1500>>
              /\ cand.netInBytesTotal = <<10485760>>
              /\ cand.netOutBytesTotal = <<10485760>>
              /\ cand.dataPointsCpu = <<30>>
              /\ cand.dataPointsNetIn = <<30>>
              /\ cand.dataPointsNetOut = <<30>>
              /\ DOMAIN cand.tags[1] = {}
              /\ cand.idle
              /\ cand.confidence = "HIGH"

\* C9: in the ranked list every adjacent pair is in the order of the key
\* (idle=true first; HIGH < MEDIUM < LOW; cpuAvg ascending with undefined as
\* +infinity; netIn+netOut ascending with undefined fields as 0).
C9_RankedByKey ==
    pc = "done" =>
        LET out == result[1].candidates
            idleKey(c) == IF c.idle THEN 0 ELSE 1
            confKey(c) == CASE c.confidence = "HIGH" -> 0
                            [] c.confidence = "MEDIUM" -> 1
                            [] c.confidence = "LOW" -> 2
            num(v) == IF v = << >> THEN 0 ELSE v[1]
            netKey(c) == num(c.netInBytesTotal) + num(c.netOutBytesTotal)
            cpuLess(a, b) == /\ a.cpuAvg # << >>
                             /\ (b.cpuAvg = << >> \/ a.cpuAvg[1] < b.cpuAvg[1])
            keyLeq(a, b) ==
                \/ idleKey(a) < idleKey(b)
                \/ /\ idleKey(a) = idleKey(b)
                   /\ \/ confKey(a) < confKey(b)
                      \/ /\ confKey(a) = confKey(b)
                         /\ \/ cpuLess(a, b)
                            \/ /\ a.cpuAvg = b.cpuAvg
                               /\ netKey(a) <= netKey(b)
        IN  \A i \in 1..(Len(out) - 1) : keyLeq(out[i], out[i + 1])

\* Three candidates that ranking reordered, one idle, one without a
\* utilization value that ends up behind a candidate with one.
C9_Witness ==
    /\ pc = "done"
    /\ Len(result[1].candidates) = 3
    /\ result[1].candidates # classified
    /\ result[1].candidates[1].idle
    /\ result[1].candidates[2].cpuAvg # << >>
    /\ result[1].candidates[2].confidence = "LOW"
    /\ result[1].candidates[3].cpuAvg = << >>
    /\ classified[1].cpuAvg = << >>

\* C10: the ranked list is a permutation of the classified candidates, one
\* per instance returned by the inventory, and scanned equals that number.
C10_RankIsPermutation ==
    pc = "done" =>
        LET out == result[1].candidates
            occurrences(seq, c) == Cardinality({i \in 1..Len(seq) : seq[i] = c})
        IN  /\ Len(classified) = Len(instances)
            /\ \A i \in 1..Len(instances) :
                  classified[i].instanceId = instances[i].instanceId
            /\ Len(out) = Len(classified)
            /\ \A i \in 1..Len(classified) :
                  occurrences(out, classified[i])
                     = occurrences(classified, classified[i])
            /\ result[1].scanned = Len(instances)

\* Three instances, two of them equal on every sort key, reordered.
C10_Witness ==
    /\ pc = "done"
    /\ Len(instances) = 3
    /\ result[1].candidates # classified
    /\ \E i, j \in 1..3 :
          /\ i # j
          /\ compareCandidates(classified[i], classified[j]) = 0

\* C11: two candidates equal on all four sort keys (idle flag, confidence,
\* utilization value with undefined as +infinity, traffic total) appear in the
\* ranked list in the order the inventory returned them.
C11_RankingStable ==
    pc = "done" =>
        LET out == result[1].candidates
            num(v) == IF v = << >> THEN 0 ELSE v[1]
            sameKeys(a, b) ==
                /\ a.idle = b.idle
                /\ a.confidence = b.confidence
                /\ a.cpuAvg = b.cpuAvg
                /\ num(a.netInBytesTotal) + num(a.netOutBytesTotal)
                      = num(b.netInBytesTotal) + num(b.netOutBytesTotal)
            posOf(id) == CHOOSE k \in 1..Len(out) : out[k].instanceId = id
        IN  \A i, j \in 1..Len(instances) :
                (i < j /\ sameKeys(classified[i], classified[j]))
                    => posOf(instances[i].instanceId)
                         < posOf(instances[j].instanceId)

\* Three instances; the first and the last of the inventory are equal on all
\* four keys, the middle one ranks ahead of both, and the two equal ones follow
\* it in inventory order.
C11_Witness ==
    /\ pc = "done"
    /\ Len(instances) = 3
    /\ compareCandidates(classified[1], classified[3]) = 0
    /\ compareCandidates(classified[2], classified[1]) < 0
    /\ result[1].candidates[1].instanceId = instances[2].instanceId
    /\ result[1].candidates[2].instanceId = instances[1].instanceId
    /\ result[1].candidates[3].instanceId = instances[3].instanceId

-----------------------------------------------------------------------------
(* listEc2InstancesSimple -> listEc2InstancesCapped, src/awsEc2Idle.ts:70-124, *)
(* one call, with every request sent and every response received on record. *)

Min(a, b) == IF a < b THEN a ELSE b
Max(a, b) == IF a > b THEN a ELSE b

\* Fault variant: the page size without the floor of 5.
maxResults_NoFloor(maxInstances, collected) == Min(1000, maxInstances - collected)

\* const remaining = maxInstances - instances.length;
\* const maxResults = Math.min(1000, Math.max(5, remaining));
maxResults(maxInstances, collected) == Min(1000, Max(5, maxInstances - collected))

\* Fault variant: the loop goes on while the response carries a token, the
\* number collected not looked at.
loopContinues_IgnoresCap(respNextToken, collected, maxInstances) == IsDefined(respNextToken)

\* After a response: `if (!resp.NextToken) break;` and then the loop
\* condition `instances.length < maxInstances`.
loopContinues(respNextToken, collected, maxInstances) == IsDefined(respNextToken) /\ collected < maxInstances

\* The input of new DescribeInstancesCommand; `collected` notes
\* instances.length at the time of the request.
describeInstancesInput(nextToken, maxInstances, collected, instanceStates) ==
    [NextToken |-> nextToken,
     MaxResults |-> maxResults(maxInstances, collected),
     Filters |-> instanceStates,
     collected |-> collected]

\* maxInstances of a call: small caps, a cap one above the page floor region
\* and a cap above the page ceiling.
ListMaxChoices == (1..MaxInstances) \cup {7, 1003}
StateFilters == {<<"running">>, <<"running", "stopped">>}

\* Record shapes offered to a listing call: untagged, tagged with a Name,
\* without an instance ID.
ListShapes ==
    {shape \in UpstreamShapes :
        \/ shape.Tags = Undefined
        \/ shape.Tags = Some(<<Tag(Some("Name"), Some("web")),
                               Tag(Some("Critical"), Some("true"))>>)}

\* Sequences of at most n of them.
ListShapeSeqs(n) == UNION {[1..k -> ListShapes] : k \in 0..n}

\* The records of all responses so far, in upstream order.
RECURSIVE upstreamSoFar(_)
upstreamSoFar(responses) ==
    IF responses = << >> THEN << >>
    ELSE upstreamSoFar(SubSeq(responses, 1, Len(responses) - 1))
            \o responses[Len(responses)].Instances

CallListEc2InstancesSimple ==
    /\ lpc = "idle"
    /\ \E maxInstances \in ListMaxChoices, instanceStates \in StateFilters :
          lArgs' = [maxInstances |-> maxInstances,
                    instanceStates |-> instanceStates]
    /\ lpc' = "looping"
    /\ UNCHANGED <<lInstances, lNextToken, lRequests, lResponses, lResult>>
    /\ UNCHANGED <<pipeVars, callVars, metricVars, serviceVars>>

\* One pass of the while loop whose ec2Client.send resolves.
ListPageReturns ==
    /\ lpc = "looping"
    /\ LET seen == Len(upstreamSoFar(lResponses))
           pageNo == Len(lResponses) + 1
       IN  \E shapes \in ListShapeSeqs(MaxInstances - seen), more \in BOOLEAN :
             /\ more => pageNo < MaxPages
             /\ LET items == [i \in 1..Len(shapes) |->
                                 upstreamRecord(seen + i, shapes[i])]
                    resp == [Instances |-> items,
                             NextToken |-> IF more THEN Some(pageNo)
                                           ELSE Undefined]
                    collected == collectPage(lInstances, items,
                                             lArgs.maxInstances)
                IN  /\ lRequests' = Append(lRequests,
                          describeInstancesInput(lNextToken, lArgs.maxInstances,
                              Len(lInstances), lArgs.instanceStates))
                    /\ lResponses' = Append(lResponses, resp)
                    /\ lInstances' = collected
                    /\ lNextToken' = IF IsDefined(resp.NextToken)
                                     THEN resp.NextToken ELSE lNextToken
                    /\ IF loopContinues(resp.NextToken, Len(collected),
                                        lArgs.maxInstances)
                       THEN /\ lpc' = "looping"
                            /\ UNCHANGED lResult
                       ELSE /\ lpc' = "returned"
                            /\ lResult' = Some(collected)
    /\ UNCHANGED lArgs
    /\ UNCHANGED <<pipeVars, callVars, metricVars, serviceVars>>

\* One pass of the while loop whose ec2Client.send rejects: the rejection
\* leaves listEc2InstancesCapped, nothing is returned.
ListPageFails ==
    /\ lpc = "looping"
    /\ lRequests' = Append(lRequests,
          describeInstancesInput(lNextToken, lArgs.maxInstances,
              Len(lInstances), lArgs.instanceStates))
    /\ lpc' = "failed"
    /\ UNCHANGED <<lArgs, lInstances, lNextToken, lResponses, lResult>>
    /\ UNCHANGED <<pipeVars, callVars, metricVars, serviceVars>>

NextInventory ==
    \/ CallListEc2InstancesSimple
    \/ ListPageReturns
    \/ ListPageFails

SpecInventory == Init /\ [][NextInventory]_vars

\* The pending send settles: it resolves or rejects.
SpecInventoryFair == SpecInventory /\ WF_vars(NextInventory)

-----------------------------------------------------------------------------
(* Properties of the inventory listing. *)

\* C18: listEc2InstancesCapped never holds or returns more than maxInstances
\* records, whatever the pages contain (a page may hold more records than
\* remain to be collected, the excess is dropped and the call still returns),
\* and what it returns is a prefix of the upstream enumeration restricted to
\* the records that carry an instance ID.
C18_CappedPrefix ==
    lpc # "idle" =>
        LET withId == SelectSeq(upstreamSoFar(lResponses),
                                LAMBDA r : r.InstanceId # << >>)
            cap == lArgs.maxInstances
        IN  /\ Len(lInstances) <= cap
            /\ lpc = "returned" =>
                  /\ lResult # << >>
                  /\ Len(lResult[1]) <= cap
                  /\ Len(lResult[1]) <= Len(withId)
                  /\ Len(lResult[1]) < cap => Len(lResult[1]) = Len(withId)
                  /\ \A i \in 1..Len(lResult[1]) :
                        lResult[1][i].instanceId = withId[i].InstanceId[1]

\* A cap of 1 and one page of three records, the first without an instance
\* ID: the second record is returned, the third dropped, the call returns.
C18_Witness ==
    /\ lpc = "returned"
    /\ lArgs.maxInstances = 1
    /\ Len(lResponses) = 1
    /\ Len(lResponses[1].Instances) = 3
    /\ lResponses[1].Instances[1].InstanceId = << >>
    /\ lResponses[1].Instances[2].InstanceId # << >>
    /\ lResponses[1].Instances[3].InstanceId # << >>
    /\ lResponses[1].NextToken # << >>
    /\ Len(lResult[1]) = 1
    /\ lResult[1][1].instanceId = 2

\* C19: every inventory request asks for min(1000, max(5, maxInstances -
\* collectedSoFar)) records, a number in [5, 1000], where collectedSoFar is
\* the number of records with an instance ID taken from the earlier pages.
C19_PageSize ==
    \A i \in 1..Len(lRequests) :
        LET r == lRequests[i]
            earlier == SelectSeq(
                upstreamSoFar(SubSeq(lResponses, 1, i - 1)),
                LAMBDA u : u.InstanceId # << >>)
            remaining == lArgs.maxInstances - Len(earlier)
        IN  /\ r.collected = Len(earlier)
            /\ r.MaxResults = (IF remaining > 1000 THEN 1000
                               ELSE IF remaining < 5 THEN 5 ELSE remaining)
            /\ r.MaxResults >= 5
            /\ r.MaxResults <= 1000

\* A cap of 7: the first request asks for 7, the second, three records
\* later, for 5 although 4 remain.
C19_Witness ==
    /\ Len(lRequests) = 2
    /\ lArgs.maxInstances = 7
    /\ lRequests[1].MaxResults = 7
    /\ lRequests[2].collected = 3
    /\ lRequests[2].MaxResults = 5

\* C20: the first request carries no token and each later one the token of
\* the response before it; a request follows a response exactly when that
\* response carried a token and fewer than maxInstances records were
\* collected; once the call has returned no request is sent; and a call in
\* its loop ends (the upstream sends a token-less page after finitely many
\* pages).
C20_Pagination ==
    /\ [](/\ \A i \in 1..Len(lRequests) :
               IF i = 1 THEN lRequests[i].NextToken = << >>
               ELSE /\ lResponses[i - 1].NextToken # << >>
                    /\ lRequests[i].NextToken = lResponses[i - 1].NextToken
                    /\ lRequests[i].collected < lArgs.maxInstances
          /\ lpc = "returned" =>
               /\ Len(lRequests) = Len(lResponses)
               /\ \/ lResponses[Len(lResponses)].NextToken = << >>
                  \/ Len(lInstances) >= lArgs.maxInstances
          /\ (lpc = "looping" /\ lResponses # << >>) =>
               /\ lResponses[Len(lResponses)].NextToken # << >>
               /\ Len(lInstances) < lArgs.maxInstances)
    /\ [][lpc = "returned" => UNCHANGED <<lpc, lRequests, lResult>>]_vars
    /\ (lpc = "looping") ~> (lpc \in {"returned", "failed"})

\* Two requests, the second with the token of the first response, the call
\* returned on a token-less second page with the cap not reached.
C20_Witness ==
    /\ lpc = "returned"
    /\ Len(lRequests) = 2
    /\ lResponses[1].NextToken = <<1>>
    /\ lRequests[2].NextToken = <<1>>
    /\ lResponses[2].NextToken = << >>
    /\ Len(lInstances) < lArgs.maxInstances
    /\ Len(lInstances) = 2

-----------------------------------------------------------------------------
(* getIdleMetricsForInstances, src/awsEc2Idle.ts:134-293.                   *)
(* A string is the sequence of its characters, so that safeId and the       *)
(* regular expression of line 251 are computed and not assumed inverse.     *)

Digits == <<"0", "1", "2", "3", "4", "5", "6", "7", "8", "9">>

\* `${idx}` for a non-negative integer: its decimal numeral.
RECURSIVE decimal(_)
decimal(n) ==
    IF n < 10 THEN <<Digits[n + 1]>>
    ELSE decimal(n \div 10) \o <<Digits[(n % 10) + 1]>>

\* String.prototype.toLowerCase, character by character (ASCII letters).
UpperCase ==
    <<"A", "B", "C", "D", "E", "F", "G", "H", "I", "J", "K", "L", "M",
      "N", "O", "P", "Q", "R", "S", "T", "U", "V", "W", "X", "Y", "Z">>
LowerCase ==
    <<"a", "b", "c", "d", "e", "f", "g", "h", "i", "j", "k", "l", "m",
      "n", "o", "p", "q", "r", "s", "t", "u", "v", "w", "x", "y", "z">>

toLowerCase(chars) ==
    [i \in 1..Len(chars) |->
        IF \E k \in 1..26 : UpperCase[k] = chars[i]
        THEN LowerCase[CHOOSE k \in 1..26 : UpperCase[k] = chars[i]]
        ELSE chars[i]]

CPU == <<"c", "p", "u">>
NI == <<"n", "i">>
NO == <<"n", "o">>

\* Fault variant: the index left out of the query ID.
safeId_NoIndex(prefix, idx) == toLowerCase(prefix)

safeId(prefix, idx) == toLowerCase(prefix \o decimal(idx))

\* average(values) on integers; the values the environment offers have an
\* integral mean.
average(values) ==
    IF Len(values) = 0 THEN Undefined
    ELSE LET total[k \in 0..Len(values)] ==
                 IF k = 0 THEN 0 ELSE total[k - 1] + values[k]
         IN  Some(total[Len(values)] \div Len(values))

sum(values) ==
    IF Len(values) = 0 THEN Undefined
    ELSE LET total[k \in 0..Len(values)] ==
                 IF k = 0 THEN 0 ELSE total[k - 1] + values[k]
         IN  Some(total[Len(values)])

\* One MetricDataQuery pushed by the forEach of lines 170-212.
MetricDataQuery(id, metricName, instanceId, period, stat) ==
    [Id |-> id, MetricName |-> metricName, InstanceId |-> instanceId,
     Period |-> period, Stat |-> stat]

\* const metricQueries after the forEach: three per instance, in order.
metricQueries(instanceIds, period) ==
    [q \in 1..(3 * Len(instanceIds)) |->
        LET index == (q - 1) \div 3
            instanceId == instanceIds[index + 1]
        IN  CASE (q - 1) % 3 = 0 ->
                   MetricDataQuery(safeId(CPU, index), "CPUUtilization",
                                   instanceId, period, "Average")
              [] (q - 1) % 3 = 1 ->
                   MetricDataQuery(safeId(NI, index), "NetworkIn",
                                   instanceId, period, "Sum")
              [] (q - 1) % 3 = 2 ->
                   MetricDataQuery(safeId(NO, index), "NetworkOut",
                                   instanceId, period, "Sum")]

\* Fault variant: chunks as large as GetMetricData allows.
maxQueriesPerCall_ApiLimit == 450 + 50

maxQueriesPerCall == 450

\* Array.prototype.slice(from, to) with 0 <= from <= to.
slice(arr, from, to) == SubSeq(arr, from + 1, Min(to, Len(arr)))

\* Fault variant: chunks one query short, slice(i, i + maxQueriesPerCall - 1).
queryChunks_OneShort(queries) ==
    LET count == (Len(queries) + maxQueriesPerCall - 1) \div maxQueriesPerCall
    IN  [c \in 1..count |->
            slice(queries, (c - 1) * maxQueriesPerCall,
                  c * maxQueriesPerCall - 1)]

\* for (let i = 0; i < metricQueries.length; i += maxQueriesPerCall)
\*   queryChunks.push(metricQueries.slice(i, i + maxQueriesPerCall));
\* The c-th pass of the loop has i = (c - 1) * maxQueriesPerCall.
queryChunks(queries) ==
    LET passes == {c \in 1..(Len(queries) + 1) :
                      (c - 1) * maxQueriesPerCall < Len(queries)}
    IN  [c \in 1..Cardinality(passes) |->
            slice(queries, (c - 1) * maxQueriesPerCall,
                  (c - 1) * maxQueriesPerCall + maxQueriesPerCall)]

\* type metricAggregation, every field optional.
Aggregation(cpuAvg, cpuCount, netInTotal, netInCount, netOutTotal, netOutCount) ==
    [cpuAvg |-> cpuAvg, cpuCount |-> cpuCount,
     netInTotal |-> netInTotal, netInCount |-> netInCount,
     netOutTotal |-> netOutTotal, netOutCount |-> netOutCount]

EmptyAggregation ==
    Aggregation(Undefined, Undefined, Undefined, Undefined, Undefined, Undefined)

\* ensureAggregation(instanceId): the mapping with an entry for instanceId.
ensureAggregation(aggregationByInstance, instanceId) ==
    IF instanceId \in DOMAIN aggregationByInstance THEN aggregationByInstance
    ELSE aggregationByInstance @@ (instanceId :> EmptyAggregation)

\* (result.Values ?? []).filter(v => typeof v === "number" &&
\* Number.isFinite(v)); a raw value is [finite, v].
finiteValues(rawValues) ==
    LET kept == SelectSeq(OrElse(rawValues, << >>), LAMBDA raw : raw.finite)
    IN  [i \in 1..Len(kept) |-> kept[i].v]

isDigit(c) == \E d \in 1..10 : Digits[d] = c

\* Number(match[2]) for a string of decimal digits.
RECURSIVE Number(_)
Number(digits) ==
    IF digits = << >> THEN 0
    ELSE 10 * Number(SubSeq(digits, 1, Len(digits) - 1))
         + ((CHOOSE d \in 1..10 : Digits[d] = digits[Len(digits)]) - 1)

\* Fault variant: the regular expression with the i flag, upper-case IDs
\* accepted.
matchQueryId_IgnoreCase(queryId) ==
    LET lowered == toLowerCase(queryId)
        fits(kind) ==
            /\ Len(lowered) > Len(kind)
            /\ SubSeq(lowered, 1, Len(kind)) = kind
            /\ \A i \in (Len(kind) + 1)..Len(lowered) : isDigit(lowered[i])
        groups(kind) ==
            [metricKind |-> kind,
             digits |-> SubSeq(lowered, Len(kind) + 1, Len(lowered))]
    IN  IF fits(CPU) THEN Some(groups(CPU))
        ELSE IF fits(NI) THEN Some(groups(NI))
        ELSE IF fits(NO) THEN Some(groups(NO))
        ELSE Undefined

\* queryId.match(/^(cpu|ni|no)(\d+)$/): the two groups, or no match.
matchQueryId(queryId) ==
    LET fits(kind) ==
            /\ Len(queryId) > Len(kind)
            /\ SubSeq(queryId, 1, Len(kind)) = kind
            /\ \A i \in (Len(kind) + 1)..Len(queryId) : isDigit(queryId[i])
        groups(kind) ==
            [metricKind |-> kind,
             digits |-> SubSeq(queryId, Len(kind) + 1, Len(queryId))]
    IN  IF fits(CPU) THEN Some(groups(CPU))
        ELSE IF fits(NI) THEN Some(groups(NI))
        ELSE IF fits(NO) THEN Some(groups(NO))
        ELSE Undefined

\* !(!Number.isFinite(idx) || idx < 0 || idx >= indexToInstanceId.length)
indexInRange(idx, length) == idx >= 0 /\ idx < length

\* The body of the for-loop over resp.MetricDataResults for one result
\* (lines 245-271).
applyResult(aggregationByInstance, metricDataResult, indexToInstanceId) ==
    LET queryId == OrElse(metricDataResult.Id, << >>)
        values == finiteValues(metricDataResult.Values)
        match == matchQueryId(queryId)
    IN  IF ~IsDefined(match) THEN aggregationByInstance
        ELSE LET metricKind == match[1].metricKind
                 idx == Number(match[1].digits)
             IN  IF ~indexInRange(idx, Len(indexToInstanceId))
                 THEN aggregationByInstance
                 ELSE LET instanceId ==
                              indexToInstanceId[idx + 1]
                          ensured == ensureAggregation(aggregationByInstance,
                                                       instanceId)
                          agg == ensured[instanceId]
                      IN  IF metricKind = CPU
                          THEN [ensured EXCEPT ![instanceId] =
                                   [agg EXCEPT !.cpuAvg = average(values),
                                               !.cpuCount = Some(Len(values))]]
                          ELSE IF metricKind = NI
                          THEN [ensured EXCEPT ![instanceId] =
                                   [agg EXCEPT !.netInTotal = sum(values),
                                               !.netInCount = Some(Len(values))]]
                          ELSE [ensured EXCEPT ![instanceId] =
                                   [agg EXCEPT !.netOutTotal = sum(values),
                                               !.netOutCount = Some(Len(values))]]

\* for (const result of resp.MetricDataResults ?? []) { ... }
RECURSIVE applyResults(_, _, _)
applyResults(aggregationByInstance, results, indexToInstanceId) ==
    IF results = << >> THEN aggregationByInstance
    ELSE applyResults(
             applyResult(aggregationByInstance, Head(results), indexToInstanceId),
             Tail(results), indexToInstanceId)

\* Fault variant: only the instances that have an aggregate get an entry.
buildMetricsByInstanceId_OnlyAggregated(instanceIds, aggregationByInstance) ==
    [instanceId \in {instanceIds[i] : i \in 1..Len(instanceIds)}
                      \cap DOMAIN aggregationByInstance |->
        LET agg == aggregationByInstance[instanceId]
        IN  Metrics(agg.cpuAvg, agg.netInTotal, agg.netOutTotal,
                    agg.cpuCount, agg.netInCount, agg.netOutCount)]

\* The loop of lines 280-290: one idleMetrics per instance ID of the input.
buildMetricsByInstanceId(instanceIds, aggregationByInstance) ==
    [instanceId \in {instanceIds[i] : i \in 1..Len(instanceIds)} |->
        LET agg == IF instanceId \in DOMAIN aggregationByInstance
                   THEN aggregationByInstance[instanceId]
                   ELSE EmptyAggregation
        IN  Metrics(agg.cpuAvg, agg.netInTotal, agg.netOutTotal,
                    agg.cpuCount, agg.netInCount, agg.netOutCount)]

-----------------------------------------------------------------------------
(* What CloudWatch may answer, and one call of getIdleMetricsForInstances.  *)

\* A datapoint of a result: a finite number, or a value the filter of line
\* 246 drops (NaN, an infinity, undefined).
Raw(v) == [finite |-> TRUE, v |-> v]
NotFinite == [finite |-> FALSE, v |-> 0]

MetricDataResult(id, values) == [Id |-> id, Values |-> values]

\* resp.MetricDataResults of one response, for calls of a few instances:
\* absent; all three kinds of the first instance; a lone utilization result;
\* results without datapoints; results of two instances with a non-finite
\* datapoint; results under IDs that are no query's next to good ones.
UpstreamResultLists ==
    { Undefined,
      Some(<<MetricDataResult(Some(safeId(CPU, 0)), Some(<<Raw(1000), Raw(2000)>>)),
             MetricDataResult(Some(safeId(NI, 0)), Some(<<Raw(10), Raw(20)>>)),
             MetricDataResult(Some(safeId(NO, 0)), Some(<<Raw(5)>>))>>),
      Some(<<MetricDataResult(Some(safeId(CPU, 0)), Some(<<Raw(3000)>>))>>),
      Some(<<MetricDataResult(Some(safeId(CPU, 0)), Some(<< >>)),
             MetricDataResult(Some(safeId(NI, 0)), Undefined)>>),
      Some(<<MetricDataResult(Some(safeId(CPU, 1)), Some(<<NotFinite, Raw(4000)>>)),
             MetricDataResult(Some(safeId(NO, 1)), Some(<<Raw(7)>>)),
             MetricDataResult(Some(safeId(CPU, 0)), Some(<<Raw(3000)>>))>>),
      Some(<<MetricDataResult(Some(safeId(CPU, 0)), Some(<<Raw(1000), Raw(2000)>>)),
             MetricDataResult(Some(<<"C", "P", "U", "0">>), Some(<<Raw(1)>>)),
             MetricDataResult(Undefined, Some(<<Raw(1)>>)),
             MetricDataResult(Some(CPU), Some(<<Raw(1)>>)),
             MetricDataResult(Some(safeId(NI, 7)), Some(<<Raw(9)>>))>>) }

\* The answers enumerated for a call of n instances: the bigger the call, the
\* fewer. [results, more]: more = the response carries a NextToken.
UpstreamAnswers(n) ==
    IF n <= MaxInstances
    THEN [results : UpstreamResultLists, more : BOOLEAN]
    ELSE IF n <= 151
    THEN [results : {Undefined,
                     Some(<<MetricDataResult(Some(safeId(CPU, 0)),
                                             Some(<<Raw(3000)>>))>>)},
          more : BOOLEAN]
    ELSE [results : {Undefined}, more : {FALSE}]

\* Numbers of instance IDs of a call: none, a few, the largest single chunk,
\* the smallest two chunks, and 1200.
IdCounts == (0..MaxInstances) \cup {150, 151, 1200}

\* instanceIds of n instances; the ID at index i (from 0) is 101 + i.
instanceIdsOf(n) == [i \in 1..n |-> 100 + i]

\* Fault variant: a window of lookbackDays hours.
startTimeOf_Hours(endTime, lookbackDays) == endTime - lookbackDays * 60 * 60 * 1000

\* new Date(endTime.getTime() - lookbackDays * 24 * 60 * 60 * 1000)
startTimeOf(endTime, lookbackDays) == endTime - lookbackDays * 24 * 60 * 60 * 1000

\* lookbackDays of a direct call (the tool's schema allows 1 to 30; the
\* milliseconds of up to 24 days fit the integers of the checker).
MetricLookbackChoices == {1, 7, 14}

\* Fault variant: the continuation token not sent.
getMetricDataInput_NoToken(chunk, nextToken, window) == [chunk |-> chunk, NextToken |-> Undefined, StartTime |-> window.startTime, EndTime |-> window.endTime]

\* new GetMetricDataCommand({... MetricDataQueries: chunk, NextToken ...}),
\* the chunk named by its index in queryChunks.
getMetricDataInput(chunk, nextToken, window) == [chunk |-> chunk, NextToken |-> nextToken, StartTime |-> window.startTime, EndTime |-> window.endTime]

\* Requests sent so far for chunk c.
pagesOfChunk(requests, c) ==
    Cardinality({i \in 1..Len(requests) : requests[i].chunk = c})

\* The call up to the first send: queries built and chunked. Without chunks
\* both loops are empty and the call returns at once.
CallGetIdleMetricsForInstances ==
    /\ mpc = "idle"
    /\ \E n \in IdCounts, lookbackDays \in MetricLookbackChoices :
          LET instanceIds == instanceIdsOf(n)
              chunks == queryChunks(metricQueries(instanceIds, periodSeconds))
          IN  /\ mArgs' = [instanceIds |-> instanceIds,
                           lookbackDays |-> lookbackDays,
                           periodSeconds |-> periodSeconds]
              /\ mQueryChunks' = chunks
              /\ mWindow' = [startTime |-> startTimeOf(mClock, lookbackDays),
                             endTime |-> mClock]
              /\ IF chunks = << >>
                 THEN /\ mpc' = "returned"
                      /\ mChunk' = 0
                      /\ mResult' = Some(buildMetricsByInstanceId(instanceIds, << >>))
                 ELSE /\ mpc' = "calling"
                      /\ mChunk' = 1
                      /\ mResult' = Undefined
    /\ UNCHANGED <<mNextToken, mAgg, mRequests, mResponses, mClock>>
    /\ UNCHANGED <<pipeVars, callVars, listVars, serviceVars>>

\* One pass of the do-while loop whose cloudWatchClient.send resolves; the
\* send takes time.
GetMetricDataReturns ==
    /\ mpc = "calling"
    /\ \E answer \in UpstreamAnswers(Len(mArgs.instanceIds)) :
          LET pageNo == pagesOfChunk(mRequests, mChunk) + 1
              resp == [MetricDataResults |-> answer.results,
                       NextToken |-> IF answer.more THEN Some(pageNo)
                                     ELSE Undefined]
              aggregated == applyResults(mAgg,
                                OrElse(resp.MetricDataResults, << >>),
                                mArgs.instanceIds)
          IN  /\ answer.more => pageNo < MaxPages
              /\ mRequests' = Append(mRequests,
                                     getMetricDataInput(mChunk, mNextToken, mWindow))
              /\ mResponses' = Append(mResponses, resp)
              /\ mAgg' = aggregated
              /\ mNextToken' = resp.NextToken
              /\ IF IsDefined(resp.NextToken)
                 THEN /\ mpc' = "calling"
                      /\ UNCHANGED <<mChunk, mResult>>
                 ELSE IF mChunk < Len(mQueryChunks)
                 THEN /\ mpc' = "calling"
                      /\ mChunk' = mChunk + 1
                      /\ UNCHANGED mResult
                 ELSE /\ mpc' = "returned"
                      /\ mResult' = Some(buildMetricsByInstanceId(
                                             mArgs.instanceIds, aggregated))
                      /\ UNCHANGED mChunk
    /\ mClock' = mClock + 1
    /\ UNCHANGED <<mArgs, mQueryChunks, mWindow>>
    /\ UNCHANGED <<pipeVars, callVars, listVars, serviceVars>>

\* Fault variant: a rejected send is sent again, the loop stays where it is.
GetMetricDataFails_Retries ==
    /\ mpc = "calling"
    /\ pagesOfChunk(mRequests, mChunk) < MaxPages
    /\ mRequests' = Append(mRequests, getMetricDataInput(mChunk, mNextToken, mWindow))
    /\ mpc' = "calling"
    /\ mClock' = mClock + 1
    /\ UNCHANGED <<mArgs, mQueryChunks, mChunk, mNextToken, mAgg, mResponses,
                   mResult, mWindow>>
    /\ UNCHANGED <<pipeVars, callVars, listVars, serviceVars>>

\* One pass of the do-while loop whose cloudWatchClient.send rejects: the
\* rejection leaves getIdleMetricsForInstances, nothing is returned.
GetMetricDataFails ==
    /\ mpc = "calling"
    /\ mRequests' = Append(mRequests, getMetricDataInput(mChunk, mNextToken, mWindow))
    /\ mpc' = "failed"
    /\ mClock' = mClock + 1
    /\ UNCHANGED <<mArgs, mQueryChunks, mChunk, mNextToken, mAgg, mResponses,
                   mResult, mWindow>>
    /\ UNCHANGED <<pipeVars, callVars, listVars, serviceVars>>

NextMetrics ==
    \/ CallGetIdleMetricsForInstances
    \/ GetMetricDataReturns
    \/ GetMetricDataFails

SpecMetrics == Init /\ [][NextMetrics]_vars

\* The pending send settles: it resolves or rejects.
SpecMetricsFair == SpecMetrics /\ WF_vars(NextMetrics)

\* What the upstream has returned over a whole call: the results of all
\* responses in order, those labelled queryId, and the finite datapoints of
\* those.
RECURSIVE allResults(_)
allResults(responses) ==
    IF responses = << >> THEN << >>
    ELSE allResults(SubSeq(responses, 1, Len(responses) - 1))
            \o OrElse(responses[Len(responses)].MetricDataResults, << >>)

resultsFor(responses, queryId) ==
    SelectSeq(allResults(responses), LAMBDA r : r.Id = Some(queryId))

RECURSIVE datapointsOf(_)
datapointsOf(results) ==
    IF results = << >> THEN << >>
    ELSE finiteValues(Head(results).Values) \o datapointsOf(Tail(results))

datapointsFor(responses, queryId) == datapointsOf(resultsFor(responses, queryId))

-----------------------------------------------------------------------------
(* Properties of getIdleMetricsForInstances. *)

\* C12: for N instance IDs the 3N query descriptors are split into exactly
\* ceil(3N / 450) chunks, each of 1 to 450 descriptors, every descriptor in
\* exactly one chunk (the chunks in order make up the descriptors, whose IDs
\* are all different); 1200 instances give 8 chunks; no instance gives no
\* chunk and no upstream call.
C12_Chunking ==
    mpc # "idle" =>
        LET n == Len(mArgs.instanceIds)
            count == Len(mQueryChunks)
            flat[k \in 0..count] ==
                IF k = 0 THEN << >> ELSE flat[k - 1] \o mQueryChunks[k]
            all == flat[count]
        IN  /\ count * 450 >= 3 * n
            /\ (count - 1) * 450 < 3 * n
            /\ \A c \in 1..count :
                  Len(mQueryChunks[c]) >= 1 /\ Len(mQueryChunks[c]) <= 450
            /\ Len(all) = 3 * n
            /\ all = metricQueries(mArgs.instanceIds, mArgs.periodSeconds)
            /\ Cardinality({all[q].Id : q \in 1..Len(all)}) = 3 * n
            /\ n = 1200 => count = 8
            /\ n = 0 => (count = 0 /\ mRequests = << >> /\ mpc = "returned")
            /\ \A i \in 1..Len(mRequests) : mRequests[i].chunk \in 1..count

\* The call for 1200 instances has returned after one request for each of
\* its 8 chunks, the last chunk full.
C12_Witness ==
    /\ mpc = "returned"
    /\ Len(mArgs.instanceIds) = 1200
    /\ Len(mQueryChunks) = 8
    /\ Len(mQueryChunks[8]) = 450
    /\ Len(mRequests) = 8
    /\ mRequests[8].chunk = 8

\* C13 as stated: the returned mapping has an entry for every instance ID
\* of the input, and for a kind with no finite datapoint returned (also when
\* no result at all was returned for the query) the value is undefined and
\* the count is zero.
C13_ZeroDatapointsCountZero ==
    mpc = "returned" =>
        \A i \in 1..Len(mArgs.instanceIds) :
            LET id == mArgs.instanceIds[i]
                entry == mResult[1][id]
                none(kind) ==
                    datapointsFor(mResponses, kind \o decimal(i - 1)) = << >>
            IN  /\ id \in DOMAIN mResult[1]
                /\ none(CPU) => (entry.cpuAvg = << >> /\ entry.dataPointsCpu = <<0>>)
                /\ none(NI) => (entry.netInBytesTotal = << >>
                                /\ entry.dataPointsNetIn = <<0>>)
                /\ none(NO) => (entry.netOutBytesTotal = << >>
                                /\ entry.dataPointsNetOut = <<0>>)

\* C13, amended: the returned mapping has an entry for every instance ID of
\* the input; for a kind with no finite datapoint returned the value is
\* undefined, and the count is zero when a result was returned for the query
\* and undefined when none was.
C13_ZeroDatapoints ==
    mpc = "returned" =>
        \A i \in 1..Len(mArgs.instanceIds) :
            LET id == mArgs.instanceIds[i]
                entry == mResult[1][id]
                none(kind) ==
                    datapointsFor(mResponses, kind \o decimal(i - 1)) = << >>
                expected(kind) ==
                    IF resultsFor(mResponses, kind \o decimal(i - 1)) = << >>
                    THEN << >> ELSE <<0>>
            IN  /\ id \in DOMAIN mResult[1]
                /\ none(CPU) => (entry.cpuAvg = << >>
                                 /\ entry.dataPointsCpu = expected(CPU))
                /\ none(NI) => (entry.netInBytesTotal = << >>
                                /\ entry.dataPointsNetIn = expected(NI))
                /\ none(NO) => (entry.netOutBytesTotal = << >>
                                /\ entry.dataPointsNetOut = expected(NO))

\* One instance, one response: a utilization result with an empty Values, an
\* inbound result without Values, no outbound result. The entry has counts
\* 0, 0 and undefined.
C13_Witness ==
    /\ mpc = "returned"
    /\ Len(mArgs.instanceIds) = 1
    /\ Len(mResponses) = 1
    /\ resultsFor(mResponses, safeId(CPU, 0)) # << >>
    /\ resultsFor(mResponses, safeId(NI, 0)) # << >>
    /\ resultsFor(mResponses, safeId(NO, 0)) = << >>
    /\ mResult[1][101].cpuAvg = << >>
    /\ mResult[1][101].dataPointsCpu = <<0>>
    /\ mResult[1][101].dataPointsNetIn = <<0>>
    /\ mResult[1][101].netOutBytesTotal = << >>
    /\ mResult[1][101].dataPointsNetOut = << >>

\* C14 as stated: when the results of a chunk arrive over several pages the
\* aggregates accumulate over all pages: for every instance and kind the
\* recorded count is the number of finite datapoints returned for the query
\* over all pages, the utilization value their mean, each volume their sum.
C14_AccumulatesAcrossPages ==
    mpc = "returned" =>
        \A i \in 1..Len(mArgs.instanceIds) :
            LET entry == mResult[1][mArgs.instanceIds[i]]
                points(kind) == datapointsFor(mResponses, kind \o decimal(i - 1))
                total(values) ==
                    LET t[k \in 0..Len(values)] ==
                            IF k = 0 THEN 0 ELSE t[k - 1] + values[k]
                    IN  t[Len(values)]
                num(v) == IF v = << >> THEN 0 ELSE v[1]
            IN  /\ num(entry.dataPointsCpu) = Len(points(CPU))
                /\ num(entry.dataPointsNetIn) = Len(points(NI))
                /\ num(entry.dataPointsNetOut) = Len(points(NO))
                /\ Len(points(CPU)) > 0 =>
                      /\ entry.cpuAvg # << >>
                      /\ entry.cpuAvg[1] * Len(points(CPU)) = total(points(CPU))
                /\ Len(points(NI)) > 0 =>
                      entry.netInBytesTotal = <<total(points(NI))>>
                /\ Len(points(NO)) > 0 =>
                      entry.netOutBytesTotal = <<total(points(NO))>>

\* C15: every instance has three queries, labelled cpu, ni and no followed by
\* its index in the input, all labels different; a result labelled kind+i
\* changes nothing but that kind's value and count of instanceIds[i]; and the
\* aggregates after a response are the same for every order of its results.
C15_Demultiplexing ==
    /\ [](mpc # "idle" =>
            LET ids == mArgs.instanceIds
                qs == metricQueries(ids, mArgs.periodSeconds)
            IN  /\ Len(qs) = 3 * Len(ids)
                /\ \A i \in 1..Len(ids) :
                      /\ qs[3 * i - 2].Id = CPU \o decimal(i - 1)
                      /\ qs[3 * i - 1].Id = NI \o decimal(i - 1)
                      /\ qs[3 * i].Id = NO \o decimal(i - 1)
                      /\ \A q \in (3 * i - 2)..(3 * i) : qs[q].InstanceId = ids[i]
                /\ Cardinality({qs[q].Id : q \in 1..Len(qs)}) = Len(qs))
    /\ [][Len(mResponses') > Len(mResponses) =>
            LET ids == mArgs.instanceIds
                page == OrElse(mResponses'[Len(mResponses')].MetricDataResults,
                               << >>)
                entryOf(aggs, id) ==
                    IF id \in DOMAIN aggs THEN aggs[id] ELSE EmptyAggregation
                sameBut(a, b, kind) ==
                    /\ kind # CPU => (a.cpuAvg = b.cpuAvg /\ a.cpuCount = b.cpuCount)
                    /\ kind # NI => (a.netInTotal = b.netInTotal
                                     /\ a.netInCount = b.netInCount)
                    /\ kind # NO => (a.netOutTotal = b.netOutTotal
                                     /\ a.netOutCount = b.netOutCount)
            IN  /\ \A p \in Permutations(1..Len(page)) :
                      applyResults(mAgg, [k \in 1..Len(page) |-> page[p[k]]], ids)
                         = mAgg'
                /\ \A k \in 1..Len(page), i \in 1..Len(ids),
                      kind \in {CPU, NI, NO} :
                      page[k].Id = <<kind \o decimal(i - 1)>> =>
                          LET before == applyResults(mAgg,
                                            SubSeq(page, 1, k - 1), ids)
                              after == applyResult(before, page[k], ids)
                          IN  /\ \A j \in 1..Len(ids) :
                                    j # i => entryOf(after, ids[j])
                                               = entryOf(before, ids[j])
                              /\ sameBut(entryOf(after, ids[i]),
                                         entryOf(before, ids[i]), kind)
       ]_vars

\* Two instances and one response holding cpu1, no1 and cpu0 in that order:
\* each instance has its own values.
C15_Witness ==
    /\ mpc = "returned"
    /\ Len(mArgs.instanceIds) = 2
    /\ Len(mResponses) = 1
    /\ mResponses[1].MetricDataResults # << >>
    /\ Len(mResponses[1].MetricDataResults[1]) = 3
    /\ mResponses[1].MetricDataResults[1][1].Id = <<safeId(CPU, 1)>>
    /\ mResponses[1].MetricDataResults[1][3].Id = <<safeId(CPU, 0)>>
    /\ mResult[1][101].cpuAvg = <<3000>>
    /\ mResult[1][101].dataPointsNetOut = << >>
    /\ mResult[1][102].cpuAvg = <<4000>>
    /\ mResult[1][102].netOutBytesTotal = <<7>>

\* C16: a result whose label is not cpu, ni or no followed by the decimal
\* index of an instance of the input (no label, another shape, an index past
\* the end) is passed over: the aggregates after a response are those of its
\* other results alone, and the call does not fail on it.
C16_ForeignResultsDiscarded ==
    [][Len(mResponses') > Len(mResponses) =>
          LET ids == mArgs.instanceIds
              page == OrElse(mResponses'[Len(mResponses')].MetricDataResults,
                             << >>)
              own(r) ==
                  /\ r.Id # << >>
                  /\ \E kind \in {CPU, NI, NO}, i \in 1..Len(ids) :
                        r.Id[1] = kind \o decimal(i - 1)
              owned == SelectSeq(page, own)
          IN  /\ mAgg' = applyResults(mAgg, owned, ids)
              /\ owned = << >> => mAgg' = mAgg
              /\ mpc' \in {"calling", "returned"}
    ]_vars

\* One instance and one response holding, after a good cpu0 result, results
\* labelled CPU0, cpu and ni7 and one without a label: the entry has the cpu0
\* values and nothing else.
C16_Witness ==
    /\ mpc = "returned"
    /\ Len(mArgs.instanceIds) = 1
    /\ Len(mResponses) = 1
    /\ mResponses[1].MetricDataResults # << >>
    /\ Len(mResponses[1].MetricDataResults[1]) = 5
    /\ mResponses[1].MetricDataResults[1][2].Id = <<(<<"C", "P", "U", "0">>)>>
    /\ mResponses[1].MetricDataResults[1][3].Id = << >>
    /\ mResult[1][101].cpuAvg = <<1500>>
    /\ mResult[1][101].dataPointsCpu = <<2>>
    /\ mResult[1][101].dataPointsNetIn = << >>
    /\ DOMAIN mResult[1] = {101}

-----------------------------------------------------------------------------
(* The three entry points side by side, one call at a time: detectIdleEc2   *)
(* (src/AWSFunctions.ts:538-594), listEc2InstancesSimple and                *)
(* getIdleMetricsForInstances. Calls share no state.                        *)

NextTools ==
    \/ (lpc = "idle" /\ mpc = "idle" /\ Invoke)
    \/ (lpc = "idle" /\ mpc = "idle" /\ DescribeInstancesReturns)
    \/ (lpc = "idle" /\ mpc = "idle" /\ DescribeInstancesFails)
    \/ (lpc = "idle" /\ mpc = "idle" /\ GetMetricsReturns)
    \/ (lpc = "idle" /\ mpc = "idle" /\ GetMetricsFails)
    \/ (pc = "idle" /\ mpc = "idle" /\ CallListEc2InstancesSimple)
    \/ (pc = "idle" /\ mpc = "idle" /\ ListPageReturns)
    \/ (pc = "idle" /\ mpc = "idle" /\ ListPageFails)
    \/ (pc = "idle" /\ lpc = "idle" /\ CallGetIdleMetricsForInstances)
    \/ (pc = "idle" /\ lpc = "idle" /\ GetMetricDataReturns)
    \/ (pc = "idle" /\ lpc = "idle" /\ GetMetricDataFails)

SpecTools == Init /\ [][NextTools]_vars

\* C17: a rejected upstream call (an inventory page, a page of a metric
\* chunk) ends the call in error: nothing is returned, whatever the earlier
\* calls brought; the rejected request is the last request of the call, no
\* request follows it and none is sent twice.
C17_FailFast ==
    /\ [](/\ pc = "failed" => result = << >>
          /\ lpc = "failed" =>
                (lResult = << >> /\ Len(lRequests) = Len(lResponses) + 1)
          /\ mpc = "failed" =>
                (mResult = << >> /\ Len(mRequests) = Len(mResponses) + 1)
          /\ lpc # "failed" => Len(lRequests) = Len(lResponses)
          /\ mpc # "failed" => Len(mRequests) = Len(mResponses)
          /\ \A i, j \in 1..Len(lRequests) :
                i # j => lRequests[i].NextToken # lRequests[j].NextToken
          /\ \A i, j \in 1..Len(mRequests) :
                i # j => mRequests[i] # mRequests[j])
    /\ [][/\ pc = "failed" => UNCHANGED pipeVars
          /\ lpc = "failed" => UNCHANGED listVars
          /\ mpc = "failed" => UNCHANGED metricVars
          /\ (pc = "listing" /\ pc' \notin {"listing", "metrics"}) =>
                (pc' = "failed" /\ result' = << >>)
          /\ (pc = "metrics" /\ pc' # "done") =>
                (pc' = "failed" /\ result' = << >>)
       ]_vars

\* The second page of a chunk is rejected after the first brought values:
\* the aggregates exist and nothing is returned.
C17_Witness ==
    /\ mpc = "failed"
    /\ Len(mResponses) = 1
    /\ Len(mRequests) = 2
    /\ mRequests[2].NextToken = <<1>>
    /\ mAgg # << >>
    /\ mResult = << >>

-----------------------------------------------------------------------------
(* Further properties of detectIdleEc2, checked under Spec. *)

\* C28: a candidate has confidence HIGH if and only if it is idle; so in the
\* ranked list every HIGH candidate comes before every MEDIUM or LOW one and
\* the idle candidates are exactly the HIGH ones, at the front.
C28_HighIffIdle ==
    pc = "done" =>
        LET out == result[1].candidates
        IN  /\ \A i \in 1..Len(classified) :
                  (classified[i].confidence = "HIGH") <=> classified[i].idle
            /\ \A i \in 1..Len(out) : (out[i].confidence = "HIGH") <=> out[i].idle
            /\ \A i, j \in 1..Len(out) :
                  (i < j /\ out[j].confidence = "HIGH")
                      => out[i].confidence = "HIGH"
            /\ \A i, j \in 1..Len(out) : (i < j /\ out[j].idle) => out[i].idle

\* Three candidates ranked HIGH, MEDIUM, LOW, the idle one last in the
\* inventory and first in the ranking.
C28_Witness ==
    /\ pc = "done"
    /\ Len(result[1].candidates) = 3
    /\ result[1].candidates[1].idle
    /\ result[1].candidates[1].confidence = "HIGH"
    /\ result[1].candidates[2].confidence = "MEDIUM"
    /\ ~result[1].candidates[2].idle
    /\ result[1].candidates[3].confidence = "LOW"
    /\ classified[3].idle

-----------------------------------------------------------------------------
(* Further properties of getIdleMetricsForInstances, checked under          *)
(* SpecMetrics.                                                             *)

\* C29: the chunk size is a multiple of 3 and the three queries of one
\* instance are always in the same chunk: no instance has queries in two
\* chunks, and a chunk holds, for each of its instances, the queries of all
\* three metrics.
C29_InstanceInOneChunk ==
    mpc # "idle" =>
        LET count == Len(mQueryChunks)
            idsOf(c) == {mQueryChunks[c][k].InstanceId :
                            k \in 1..Len(mQueryChunks[c])}
            pairsOf(c) == {<<mQueryChunks[c][k].InstanceId,
                             mQueryChunks[c][k].MetricName>> :
                              k \in 1..Len(mQueryChunks[c])}
        IN  /\ 450 % 3 = 0
            /\ \A c \in 1..count : Len(mQueryChunks[c]) <= 450
            /\ \A c, d \in 1..count : c < d => idsOf(c) \cap idsOf(d) = {}
            /\ \A c \in 1..count :
                  /\ Len(mQueryChunks[c]) = 3 * Cardinality(idsOf(c))
                  /\ pairsOf(c) = idsOf(c) \X {"CPUUtilization", "NetworkIn",
                                              "NetworkOut"}
            /\ UNION {idsOf(c) : c \in 1..count}
                  = {mArgs.instanceIds[i] : i \in 1..Len(mArgs.instanceIds)}

\* 151 instances: the first chunk is full and ends with the three queries of
\* the 150th instance, the second holds the three queries of the 151st.
C29_Witness ==
    /\ mpc = "returned"
    /\ Len(mArgs.instanceIds) = 151
    /\ Len(mQueryChunks) = 2
    /\ Len(mQueryChunks[1]) = 450
    /\ mQueryChunks[1][448].InstanceId = 250
    /\ mQueryChunks[1][450].InstanceId = 250
    /\ Len(mQueryChunks[2]) = 3
    /\ \A k \in 1..3 : mQueryChunks[2][k].InstanceId = 251

\* C25: chunks are processed one at a time: the first request is for the
\* first chunk without a token; after a response with a token the next
\* request is for the same chunk with that token; after a response without
\* one it is the first request, without a token, of the next chunk; the call
\* returns only after a token-less response to the last chunk; and a call in
\* its loop ends (every chunk gets a token-less response after finitely many
\* pages).
C25_SequentialChunks ==
    /\ [](/\ \A i \in 1..Len(mRequests) :
               IF i = 1
               THEN mRequests[i].chunk = 1 /\ mRequests[i].NextToken = << >>
               ELSE IF mResponses[i - 1].NextToken # << >>
               THEN /\ mRequests[i].chunk = mRequests[i - 1].chunk
                    /\ mRequests[i].NextToken = mResponses[i - 1].NextToken
               ELSE /\ mRequests[i].chunk = mRequests[i - 1].chunk + 1
                    /\ mRequests[i].NextToken = << >>
          /\ (mpc = "returned" /\ mRequests # << >>) =>
               /\ mResponses[Len(mResponses)].NextToken = << >>
               /\ mRequests[Len(mRequests)].chunk = Len(mQueryChunks)
          /\ mpc = "calling" =>
               mChunk = IF mResponses = << >> THEN 1
                        ELSE IF mResponses[Len(mResponses)].NextToken # << >>
                        THEN mRequests[Len(mRequests)].chunk
                        ELSE mRequests[Len(mRequests)].chunk + 1)
    /\ (mpc = "calling") ~> (mpc \in {"returned", "failed"})

\* 151 instances, two chunks: two pages for the first chunk, then one for
\* the second, and the call has returned.
C25_Witness ==
    /\ mpc = "returned"
    /\ Len(mQueryChunks) = 2
    /\ Len(mRequests) = 3
    /\ mRequests[1].chunk = 1 /\ mRequests[1].NextToken = << >>
    /\ mResponses[1].NextToken = <<1>>
    /\ mRequests[2].chunk = 1 /\ mRequests[2].NextToken = <<1>>
    /\ mResponses[2].NextToken = << >>
    /\ mRequests[3].chunk = 2 /\ mRequests[3].NextToken = << >>

\* C22: the window is computed once per call: every request of every chunk
\* and page carries the same start and end time, the end being the time of
\* the call, and end - start = lookbackDays * 86400 seconds.
C22_SingleWindow ==
    mpc # "idle" =>
        /\ mWindow.endTime - mWindow.startTime
              = mArgs.lookbackDays * 86400 * 1000
        /\ \A i \in 1..Len(mRequests) :
              /\ mRequests[i].StartTime = mRequests[1].StartTime
              /\ mRequests[i].EndTime = mRequests[1].EndTime
              /\ mRequests[i].EndTime - mRequests[i].StartTime
                    = mArgs.lookbackDays * 86400 * 1000
              /\ mRequests[i].EndTime = mClock - Len(mRequests)

\* 151 instances, 14 days: three requests over two chunks, sent at three
\* different times, all with the window of the time of the call.
C22_Witness ==
    /\ mpc = "returned"
    /\ mArgs.lookbackDays = 14
    /\ Len(mQueryChunks) = 2
    /\ Len(mRequests) = 3
    /\ mRequests[2].chunk = 1
    /\ mRequests[3].chunk = 2
    /\ mClock = 3
    /\ mRequests[3].EndTime = 0
    /\ mRequests[3].StartTime = -1209600000

-----------------------------------------------------------------------------
(* Order of the upstream calls of detectIdleEc2, checked under Spec. *)

\* C21: within one invocation the metric call is made only after the listing
\* has returned: while pages are fetched there is no metric call; the call is
\* made with the IDs of all instances the listing returned, in order, and no
\* page is fetched after it; and a listing that fails is followed by no
\* metric call.
C21_MetricsAfterInventory ==
    /\ [](/\ pc \in {"idle", "listing"} => metricCall = << >>
          /\ metricCall # << >> =>
                /\ pc \in {"metrics", "done", "failed"}
                /\ listing = NotListing
                /\ metricCall[1].instanceIds
                      = [i \in 1..Len(instances) |-> instances[i].instanceId]
                /\ metricCall[1].lookbackDays = args.lookbackDays
          /\ pc \in {"metrics", "done"} => metricCall # << >>)
    /\ [][/\ metricCall # << >> =>
                UNCHANGED <<inventory, instances, metricCall>>
          /\ (pc = "listing" /\ pc' = "failed") => metricCall' = << >>
          /\ (pc = "failed" /\ metricCall = << >>) => metricCall' = << >>
       ]_vars

\* Three records listed, the second without an instance ID: the metric call
\* is pending with the IDs of the first and the third.
C21_Witness ==
    /\ pc = "metrics"
    /\ Len(inventory) = 3
    /\ Len(instances) = 2
    /\ metricCall # << >>
    /\ metricCall[1].instanceIds = <<1, 3>>

-----------------------------------------------------------------------------
(* queryMysqlRds, src/public/app.js:114-187 (the text of awsRdsQuery.ts).   *)
(* SQL text is the sequence of its characters.                              *)

Whitespace == {" ", "\t", "\n", "\r"}

\* String.prototype.trim
RECURSIVE trimStart(_)
trimStart(chars) ==
    IF chars # << >> /\ Head(chars) \in Whitespace THEN trimStart(Tail(chars))
    ELSE chars

RECURSIVE trimEnd(_)
trimEnd(chars) ==
    IF chars # << >> /\ chars[Len(chars)] \in Whitespace
    THEN trimEnd(SubSeq(chars, 1, Len(chars) - 1))
    ELSE chars

trim(chars) == trimEnd(trimStart(chars))

\* String.prototype.startsWith
startsWith(chars, prefix) ==
    Len(chars) >= Len(prefix) /\ SubSeq(chars, 1, Len(prefix)) = prefix

\* isReadOnlySql, lines 130-138
isReadOnlySql(sql) ==
    LET normalized == toLowerCase(trim(sql))
    IN  \/ startsWith(normalized, <<"s", "e", "l", "e", "c", "t", " ">>)
        \/ startsWith(normalized, <<"s", "h", "o", "w", " ">>)
        \/ startsWith(normalized, <<"d", "e", "s", "c", "r", "i", "b", "e", " ">>)
        \/ startsWith(normalized, <<"d", "e", "s", "c", " ">>)

\* A statement a caller can pass: its text, and what MySQL does when it
\* runs it ("read": returns rows and changes nothing; "write": changes
\* tables or files of the server).
Statement(text, effect) == [text |-> text, effect |-> effect]

SqlStatements ==
    { Statement(<<"S", "E", "L", "E", "C", "T", " ", "1">>,
                "read"),
      Statement(<<" ", " ", "s", "e", "l", "e", "c", "t", " ", "*", " ", "f",
                  "r", "o", "m", " ", "t", " ", "\n">>,
                "read"),
      Statement(<<"s", "h", "o", "w", " ", "t", "a", "b", "l", "e", "s">>,
                "read"),
      Statement(<<"D", "e", "s", "c", "r", "i", "b", "e", " ", "t">>,
                "read"),
      Statement(<<"d", "e", "s", "c", " ", "t">>,
                "read"),
      Statement(<<"d", "r", "o", "p", " ", "t", "a", "b", "l", "e", " ", "t">>,
                "write"),
      Statement(<<"D", "E", "L", "E", "T", "E", " ", "F", "R", "O", "M", " ", "t">>,
                "write"),
      Statement(<<"u", "p", "d", "a", "t", "e", " ", "t", " ", "s", "e", "t",
                  " ", "a", " ", "=", " ", "1">>,
                "write"),
      Statement(<<"s", "e", "l", "e", "c", "t">>,
                "read"),
      Statement(<<"S", "E", "L", "E", "C", "T", "\t", "1">>,
                "read"),
      Statement(<<"s", "e", "l", "e", "c", "t", " ", "*", " ", "f", "r", "o",
                  "m", " ", "t", " ", "i", "n", "t", "o", " ", "o",
                  "u", "t", "f", "i", "l", "e", " ", "'", "/", "t",
                  "m", "p", "/", "o", "'">>,
                "write") }

\* maxRows of a call (the tool's schema allows 1 to 500).
MaxRowsChoices == {1, 2, 500}

\* A row of a result set, as the object mysql2 builds with rowsAsArray:
\* false: its properties in column order.
Row(i) == << <<"id", i>>, <<"name", "n">> >>

\* Object.keys(row)
ObjectKeys(row) == [k \in 1..Len(row) |-> row[k][1]]

\* What connection.query can resolve with as `rows`: an array of up to
\* MaxInstances rows, or the header object of a statement without a result
\* set.
QueryOutcomes ==
    {[isArray |-> TRUE, rows |-> [i \in 1..n |-> Row(i)]] : n \in 0..MaxInstances}
    \cup {[isArray |-> FALSE, rows |-> << >>]}

\* The value built in the try block, lines 175-183.
rdsQueryResult(outcome, maxRows) ==
    LET resultRows == IF outcome.isArray THEN slice(outcome.rows, 0, maxRows)
                      ELSE << >>
        columns == IF Len(resultRows) > 0 THEN ObjectKeys(resultRows[1])
                   ELSE << >>
    IN  [rowCount |-> Len(resultRows), columns |-> columns, rows |-> resultRows]

Resolved(value) == [ok |-> TRUE, value |-> value]
Rejected(error) == [ok |-> FALSE, error |-> error]

notRdsVars == <<pipeVars, callVars, listVars, metricVars, s3Vars, webVars>>

\* The call up to its first await: the statement check, the environment
\* reads, mysql.createConnection.
CallQueryMysqlRds ==
    /\ rpc = "idle"
    /\ \E sql \in SqlStatements, maxRows \in MaxRowsChoices,
          hasHost \in BOOLEAN :
          /\ rArgs' = [sql |-> sql, maxRows |-> maxRows, hasHost |-> hasHost]
          /\ IF ~isReadOnlySql(sql.text)
             THEN /\ rpc' = "rejected"
                  /\ rResult' = Some(Rejected("OnlyReadQueriesAllowed"))
                  /\ UNCHANGED rLog
             ELSE IF ~hasHost
             THEN /\ rpc' = "rejected"
                  /\ rResult' = Some(Rejected("Missing RDS_HOST"))
                  /\ UNCHANGED rLog
             ELSE /\ rpc' = "connecting"
                  /\ rLog' = <<[op |-> "createConnection"]>>
                  /\ UNCHANGED rResult
    /\ UNCHANGED rPending
    /\ UNCHANGED notRdsVars

\* createConnection resolves: the try block is entered and the statement is
\* sent.
ConnectionOpens ==
    /\ rpc = "connecting"
    /\ rLog' = rLog \o <<[op |-> "connected"],
                         [op |-> "query", sql |-> rArgs.sql]>>
    /\ rpc' = "querying"
    /\ UNCHANGED <<rArgs, rPending, rResult>>
    /\ UNCHANGED notRdsVars

\* createConnection rejects: there is no connection, the call rejects.
ConnectionFails ==
    /\ rpc = "connecting"
    /\ rpc' = "rejected"
    /\ rResult' = Some(Rejected("ECONNREFUSED"))
    /\ UNCHANGED <<rArgs, rLog, rPending>>
    /\ UNCHANGED notRdsVars

\* connection.query resolves: the result is built, the finally block calls
\* connection.end.
QueryResolves ==
    /\ rpc = "querying"
    /\ \E outcome \in QueryOutcomes :
          rPending' = Some([outcome |-> outcome,
                            settle |-> Resolved(rdsQueryResult(outcome,
                                                   rArgs.maxRows))])
    /\ rLog' = Append(rLog, [op |-> "end"])
    /\ rpc' = "ending"
    /\ UNCHANGED <<rArgs, rResult>>
    /\ UNCHANGED notRdsVars

\* Fault variant: connection.end called after the try block, not in a
\* finally: a rejected query leaves the connection open.
QueryRejects_NoFinally ==
    /\ rpc = "querying"
    /\ rpc' = "rejected"
    /\ rResult' = Some(Rejected("ER_PARSE_ERROR"))
    /\ UNCHANGED <<rArgs, rLog, rPending>>
    /\ UNCHANGED notRdsVars

\* connection.query rejects: the finally block calls connection.end, the
\* rejection is held.
QueryRejects ==
    /\ rpc = "querying"
    /\ rPending' = Some([outcome |-> [isArray |-> FALSE, rows |-> << >>],
                         settle |-> Rejected("ER_PARSE_ERROR")])
    /\ rLog' = Append(rLog, [op |-> "end"])
    /\ rpc' = "ending"
    /\ UNCHANGED <<rArgs, rResult>>
    /\ UNCHANGED notRdsVars

\* connection.end resolves: the call settles with what the try block left.
EndResolves ==
    /\ rpc = "ending"
    /\ rResult' = Some(rPending[1].settle)
    /\ rpc' = IF rPending[1].settle.ok THEN "returned" ELSE "rejected"
    /\ UNCHANGED <<rArgs, rLog, rPending>>
    /\ UNCHANGED notRdsVars

\* connection.end rejects: its rejection replaces what the try block left.
EndRejects ==
    /\ rpc = "ending"
    /\ rResult' = Some(Rejected("PROTOCOL_CONNECTION_LOST"))
    /\ rpc' = "rejected"
    /\ UNCHANGED <<rArgs, rLog, rPending>>
    /\ UNCHANGED notRdsVars

NextRds ==
    \/ CallQueryMysqlRds
    \/ ConnectionOpens
    \/ ConnectionFails
    \/ QueryResolves
    \/ QueryRejects
    \/ EndResolves
    \/ EndRejects

SpecRds == Init /\ [][NextRds]_vars

-----------------------------------------------------------------------------
(* The S3 tools: AWSFunctions.ts:33-45, 396-511 and awsS3.ts. Bucket names, *)
(* the ALLOWED_BUCKETS setting and error messages are sequences of          *)
(* characters; regions and operation names are strings.                    *)

\* const defaultBucketName = "daemo-agent-s3-darrell"
defaultBucketName ==
    <<"d", "a", "e", "m", "o", "-", "a", "g", "e", "n", "t", "-", "s",
      "3", "-", "d", "a", "r", "r", "e", "l", "l">>

\* String.prototype.split with a one-character separator
RECURSIVE split(_, _)
split(chars, sep) ==
    IF \E k \in 1..Len(chars) : chars[k] = sep
    THEN LET k == CHOOSE i \in 1..Len(chars) :
                      chars[i] = sep /\ \A j \in 1..(i - 1) : chars[j] # sep
         IN  <<SubSeq(chars, 1, k - 1)>>
                 \o split(SubSeq(chars, k + 1, Len(chars)), sep)
    ELSE <<chars>>

\* Array.prototype.includes
includes(arr, v) == \E k \in 1..Len(arr) : arr[k] = v

\* const allowedBuckets, lines 34-37, from the environment env
allowedBucketsOf(env) ==
    LET parts == split(OrElse(env.ALLOWED_BUCKETS, defaultBucketName), ",")
        trimmed == [k \in 1..Len(parts) |-> trim(parts[k])]
        nonEmpty(value) == Len(value) > 0
    IN  SelectSeq(trimmed, nonEmpty)

\* An Error object: its name and its message.
Error(message) == [name |-> "Error", message |-> message]

BucketNotAllowedPrefix ==
    <<"B", "u", "c", "k", "e", "t", "N", "o", "t", "A", "l", "l", "o",
      "w", "e", "d", ":">>

\* The bucket name resolveBucket works with, line 40.
bucketNameOf(requestedBucket) ==
    trim(OrElse(requestedBucket,
                IF allowedBuckets # << >> THEN allowedBuckets[1]
                ELSE defaultBucketName))

\* Fault variant: the bucket name is returned without the membership test.
resolveBucket_NoCheck(requestedBucket) ==
    Resolved(bucketNameOf(requestedBucket))

\* resolveBucket, lines 39-45: the bucket, or the Error thrown
resolveBucket(requestedBucket) ==
    LET bucket == bucketNameOf(requestedBucket)
    IN  IF ~includes(allowedBuckets, bucket)
        THEN Rejected(Error(BucketNotAllowedPrefix \o bucket))
        ELSE Resolved(bucket)

AccessDeniedMessage ==
    <<"A", "W", "S", " ", "d", "e", "n", "i", "e", "d", " ", "t", "h",
      "e", " ", "r", "e", "q", "u", "e", "s", "t", " ", "(", "A", "c",
      "c", "e", "s", "s", "D", "e", "n", "i", "e", "d", ")", ".", " ",
      "T", "h", "i", "s", " ", "u", "s", "u", "a", "l", "l", "y", " ",
      "m", "e", "a", "n", "s", " ", "t", "h", "e", " ", "I", "A", "M",
      " ", "u", "s", "e", "r", " ", "i", "s", " ", "m", "i", "s", "s",
      "i", "n", "g", " ", "a", " ", "r", "e", "q", "u", "i", "r", "e",
      "d", " ", "p", "e", "r", "m", "i", "s", "s", "i", "o", "n", ".">>

MissingAwsRegion ==
    <<"M", "i", "s", "s", "i", "n", "g", " ", "A", "W", "S", "_", "R",
      "E", "G", "I", "O", "N", " ", "i", "n", " ", "e", "n", "v", "i",
      "r", "o", "n", "m", "e", "n", "t">>

EmptyBodyPrefix ==
    <<"S", "3", " ", "o", "b", "j", "e", "c", "t", " ", "h", "a", "d",
      " ", "a", "n", " ", "e", "m", "p", "t", "y", " ", "b", "o", "d",
      "y", " ", "f", "o", "r", " ", "k", "e", "y", "=", "\"", "n", "o",
      "t", "e", "s", ".", "t", "x", "t", "\"", ".">>

AwsErrorPrefix ==
    <<"A", "W", "S", " ", "e", "r", "r", "o", "r", ":", " ", "E", "r",
      "r", "o", "r">>

\* formatAwsErrorMessage, lines 290-369, on the errors that occur here
formatAwsErrorMessage(error) ==
    IF error.name = "AccessDenied" THEN AccessDeniedMessage
    ELSE IF error.message # << >> /\ error.message # <<"E", "r", "r", "o", "r">>
    THEN error.message
    ELSE AwsErrorPrefix

\* Map.prototype.get and Map.prototype.set on a set of <<key, value>> pairs
mapGet(map, key) ==
    IF \E e \in map : e[1] = key
    THEN Some((CHOOSE e \in map : e[1] = key)[2])
    ELSE Undefined

mapSet(map, key, value) == {e \in map : e[1] # key} \cup {<<key, value>>}

\* Fault variant: a client is built on every call, the map is not read.
getS3Client_AlwaysNew(clients, created, region) ==
    [client |-> Len(created) + 1,
     clients |-> mapSet(clients, region, Len(created) + 1),
     created |-> Append(created, region)]

\* getS3Client, awsS3.ts:20-27: the client returned, and the map and the
\* record of constructions after the call. A client is named by the
\* position of its construction.
getS3Client(clients, created, region) ==
    LET cached == mapGet(clients, region)
    IN  IF IsDefined(cached)
        THEN [client |-> cached[1], clients |-> clients, created |-> created]
        ELSE [client |-> Len(created) + 1,
              clients |-> mapSet(clients, region, Len(created) + 1),
              created |-> Append(created, region)]

\* normalizeBucketRegion, awsS3.ts:29-33
normalizeBucketRegion(region) ==
    IF region = Undefined \/ region = Some("") THEN "us-east-1"
    ELSE IF region = Some("EU") THEN "eu-west-1"
    ELSE region[1]

\* getRegion, awsS3.ts:11-15: the region, or Undefined where it throws
getRegion(env) ==
    IF env.AWS_REGION = Undefined \/ env.AWS_REGION = Some("") THEN Undefined
    ELSE env.AWS_REGION

\* ---- environment ----

LogsBucket == <<"l", "o", "g", "s">>
DataBucket == <<"d", "a", "t", "a">>
ProdBucket == <<"p", "r", "o", "d">>

\* process.env when the modules are loaded.
Envs ==
    {[ALLOWED_BUCKETS |-> Undefined, AWS_REGION |-> Some("us-east-1")],
     [ALLOWED_BUCKETS |-> Some(<<"l", "o", "g", "s", ",", " ", "d", "a", "t", "a">>),
      AWS_REGION |-> Some("us-east-1")],
     [ALLOWED_BUCKETS |-> Some(<<"l", "o", "g", "s", ",", " ", "d", "a", "t", "a">>),
      AWS_REGION |-> Undefined],
     [ALLOWED_BUCKETS |-> Some(<<" ", ",", " ">>), AWS_REGION |-> Some("us-east-1")]}

\* The bucket argument of a tool call: none, an allowed name, an allowed
\* name with blanks around it, a name that is not allowed.
RequestedBuckets ==
    {Undefined, Some(LogsBucket), Some(<<" ">> \o DataBucket \o <<" ">>),
     Some(ProdBucket)}

S3Tools ==
    {"listFiles", "readTextFile", "writeTextFile", "presignDownload",
     "findOldFiles"}

ListTools == {"listFiles", "findOldFiles"}

\* limit of listFiles
LimitChoices == {1, 2}

\* Where S3 keeps each bucket: the LocationConstraint GetBucketLocation
\* answers with, and the x-amz-bucket-region header of an error response.
locationOf(bucket) ==
    IF bucket = LogsBucket
    THEN [LocationConstraint |-> Undefined, header |-> "us-east-1"]
    ELSE IF bucket = DataBucket
    THEN [LocationConstraint |-> Some("EU"), header |-> "eu-west-1"]
    ELSE [LocationConstraint |-> Some("us-west-2"), header |-> "us-west-2"]

\* A request handed to a client's send, or a command handed to
\* getSignedUrl.
S3Request(op, bucket, client, maxKeys, token) ==
    [op |-> op, Bucket |-> bucket, client |-> client, MaxKeys |-> maxKeys,
     ContinuationToken |-> token]

\* Array.prototype.slice(0, maxResults) and the loop bounds of the two
\* listing functions: listS3Objects stops at maxKeys keys,
\* listS3ObjectsWithMetaCapped at maxTotalObjects items.
pageSize == 250
maxTotalObjects == 5000

listCap(a) == IF a.tool = "listFiles" THEN a.limit ELSE maxTotalObjects

\* MaxKeys of the next ListObjectsV2 request, awsS3.ts:113-117, 199-205
maxKeysOf(a, count) ==
    IF a.tool = "listFiles" THEN a.limit - count
    ELSE Min(pageSize, maxTotalObjects - count)

objectKey == "notes.txt"

\* What a tool does once getS3ClientForBucket has returned its client: the
\* request it sends first (a presigned URL is computed without a request),
\* its position after that and its result where it has one.
firstStep(a, bucket, client) ==
    IF a.tool = "presignDownload"
    THEN [pc |-> "returned",
          sent |-> <<S3Request("getSignedUrl GetObject", bucket, client,
                               Undefined, Undefined)>>,
          result |-> Some(Resolved([url |-> <<bucket, objectKey>>]))]
    ELSE IF a.tool \in ListTools
    THEN [pc |-> "listing",
          sent |-> <<S3Request("ListObjectsV2", bucket, client,
                               Some(maxKeysOf(a, 0)), Undefined)>>,
          result |-> Undefined]
    ELSE [pc |-> "sending",
          sent |-> <<S3Request(IF a.tool = "readTextFile" THEN "GetObject"
                               ELSE "PutObject",
                               bucket, client, Undefined, Undefined)>>,
          result |-> Undefined]

\* The locals of a call from the moment it has its client.
withClient(bucket, cachedRegion, client) ==
    [bucket |-> bucket, cachedRegion |-> cachedRegion, s3Client |-> Some(client),
     count |-> 0]

notS3Vars == <<pipeVars, callVars, listVars, metricVars, rdsVars, webVars>>

\* The modules are loaded: AWSFunctions.ts computes allowedBuckets from the
\* environment (lines 33-37).
LoadModules ==
    /\ sEnv = Undefined
    /\ \E env \in Envs :
          /\ sEnv' = Some(env)
          /\ allowedBuckets' = allowedBucketsOf(env)
    /\ UNCHANGED <<s3Clients, bucketRegionCache, sCreated, spc, sArgs, sLocal,
                   sSent, sResult>>
    /\ UNCHANGED notS3Vars

\* A tool is called: resolveBucket, then the awsS3 function, which calls
\* getS3ClientForBucket; all synchronous up to the first request.
CallS3Tool(p) ==
    /\ sEnv # Undefined
    /\ spc[p] = "idle"
    /\ \E tool \in S3Tools, requested \in RequestedBuckets,
          limit \in LimitChoices :
          LET a == [tool |-> tool, bucket |-> requested, limit |-> limit]
              resolved == resolveBucket(requested)
              bucket == resolved.value
              cachedRegion == mapGet(bucketRegionCache, bucket)
              defaultRegion == getRegion(sEnv[1])
              g == getS3Client(s3Clients, sCreated,
                               IF IsDefined(cachedRegion) THEN cachedRegion[1]
                               ELSE defaultRegion[1])
              step == firstStep(a, bucket, g.client)
          IN  /\ tool \notin ListTools => limit = 1
              /\ sArgs' = [sArgs EXCEPT ![p] = a]
              /\ IF ~resolved.ok
                 THEN /\ spc' = [spc EXCEPT ![p] = "rejected"]
                      /\ sResult' = [sResult EXCEPT ![p] =
                             Some(Rejected(formatAwsErrorMessage(resolved.error)))]
                      /\ UNCHANGED <<s3Clients, sCreated, sLocal, sSent>>
                 ELSE IF IsDefined(cachedRegion)
                 THEN /\ s3Clients' = g.clients
                      /\ sCreated' = g.created
                      /\ sLocal' = [sLocal EXCEPT ![p] =
                             withClient(bucket, cachedRegion, g.client)]
                      /\ sSent' = [sSent EXCEPT ![p] = step.sent]
                      /\ spc' = [spc EXCEPT ![p] = step.pc]
                      /\ sResult' = [sResult EXCEPT ![p] = step.result]
                 ELSE IF defaultRegion = Undefined
                 THEN /\ spc' = [spc EXCEPT ![p] = "rejected"]
                      /\ sLocal' = [sLocal EXCEPT ![p] =
                             [bucket |-> bucket, cachedRegion |-> cachedRegion,
                              s3Client |-> Undefined, count |-> 0]]
                      /\ sResult' = [sResult EXCEPT ![p] =
                             Some(Rejected(formatAwsErrorMessage(
                                               Error(MissingAwsRegion))))]
                      /\ UNCHANGED <<s3Clients, sCreated, sSent>>
                 ELSE /\ s3Clients' = g.clients
                      /\ sCreated' = g.created
                      /\ sLocal' = [sLocal EXCEPT ![p] =
                             [bucket |-> bucket, cachedRegion |-> cachedRegion,
                              s3Client |-> Undefined, count |-> 0]]
                      /\ sSent' = [sSent EXCEPT ![p] =
                             <<S3Request("GetBucketLocation", bucket, g.client,
                                         Undefined, Undefined)>>]
                      /\ spc' = [spc EXCEPT ![p] = "locating"]
                      /\ UNCHANGED sResult
    /\ UNCHANGED <<sEnv, allowedBuckets, bucketRegionCache>>
    /\ UNCHANGED notS3Vars

\* The state after getS3ClientForBucket resolved the region `region` for
\* the bucket of call p (cache = TRUE: the region is stored, lines 48, 56)
\* and the tool went on to its first request.
afterLocation(p, region, cache) ==
    LET bucket == sLocal[p].bucket
        g == getS3Client(s3Clients, sCreated, region)
        step == firstStep(sArgs[p], bucket, g.client)
    IN  /\ bucketRegionCache' = IF cache
                                THEN mapSet(bucketRegionCache, bucket, region)
                                ELSE bucketRegionCache
        /\ s3Clients' = g.clients
        /\ sCreated' = g.created
        /\ sLocal' = [sLocal EXCEPT ![p] =
               withClient(bucket, sLocal[p].cachedRegion, g.client)]
        /\ sSent' = [sSent EXCEPT ![p] = sSent[p] \o step.sent]
        /\ spc' = [spc EXCEPT ![p] = step.pc]
        /\ sResult' = [sResult EXCEPT ![p] = step.result]

\* GetBucketLocation answers, awsS3.ts:43-49.
GetBucketLocationReturns(p) ==
    /\ spc[p] = "locating"
    /\ afterLocation(p, normalizeBucketRegion(
                            locationOf(sLocal[p].bucket).LocationConstraint),
                     TRUE)
    /\ UNCHANGED <<sEnv, allowedBuckets, sArgs>>
    /\ UNCHANGED notS3Vars

\* GetBucketLocation fails, awsS3.ts:50-61: with the region header the
\* region is stored, without it the default region's client is used.
GetBucketLocationFails(p) ==
    /\ spc[p] = "locating"
    /\ \E headerRegion \in {Undefined, Some(locationOf(sLocal[p].bucket).header)} :
          IF IsDefined(headerRegion)
          THEN afterLocation(p, normalizeBucketRegion(headerRegion), TRUE)
          ELSE afterLocation(p, getRegion(sEnv[1])[1], FALSE)
    /\ UNCHANGED <<sEnv, allowedBuckets, sArgs>>
    /\ UNCHANGED notS3Vars

\* GetObject or PutObject answers: getTextObject, putTextObject.
ObjectRequestReturns(p) ==
    /\ spc[p] = "sending"
    /\ \E hasBody \in BOOLEAN :
          /\ sArgs[p].tool = "writeTextFile" => hasBody
          /\ IF hasBody
             THEN /\ spc' = [spc EXCEPT ![p] = "returned"]
                  /\ sResult' = [sResult EXCEPT ![p] =
                         Some(Resolved([bucket |-> sLocal[p].bucket,
                                        key |-> objectKey]))]
             ELSE /\ spc' = [spc EXCEPT ![p] = "rejected"]
                  /\ sResult' = [sResult EXCEPT ![p] =
                         Some(Rejected(formatAwsErrorMessage(
                                           Error(EmptyBodyPrefix))))]
    /\ UNCHANGED <<sEnv, allowedBuckets, s3Clients, bucketRegionCache, sCreated,
                   sArgs, sLocal, sSent>>
    /\ UNCHANGED notS3Vars

\* The ListObjectsV2 requests call p has sent.
listRequestsSent(p) ==
    Cardinality({k \in 1..Len(sSent[p]) : sSent[p][k].op = "ListObjectsV2"})

\* The pages S3 can answer a ListObjectsV2 request with: how many objects,
\* IsTruncated, NextContinuationToken. It answers IsTruncated only before
\* the last of MaxPages pages.
ListPages(p) ==
    {[Contents |-> n, IsTruncated |-> truncated, NextContinuationToken |-> token] :
        n \in {0, 1}, truncated \in BOOLEAN, token \in {Undefined, Some("t")}}
    \ {page \in [Contents : {0, 1}, IsTruncated : BOOLEAN,
                 NextContinuationToken : {Undefined, Some("t")}] :
          \/ page.IsTruncated /\ listRequestsSent(p) >= MaxPages
          \/ ~page.IsTruncated /\ IsDefined(page.NextContinuationToken)}

\* ListObjectsV2 answers: one turn of the loop of listS3Objects (awsS3.ts:
\* 112-134) or listS3ObjectsWithMetaCapped (198-228), and the tool's return.
ListObjectsReturns(p) ==
    /\ spc[p] = "listing"
    /\ \E page \in ListPages(p) :
          LET a == sArgs[p]
              count == sLocal[p].count + page.Contents
              last == sSent[p][Len(sSent[p])]
              goesOn == /\ page.IsTruncated
                        /\ IsDefined(page.NextContinuationToken)
                        /\ count < listCap(a)
              value == IF a.tool = "listFiles"
                       THEN [bucket |-> sLocal[p].bucket,
                             count |-> Min(count, a.limit)]
                       ELSE [bucket |-> sLocal[p].bucket, scanned |-> count,
                             truncated |-> page.IsTruncated]
          IN  /\ sLocal' = [sLocal EXCEPT ![p].count = count]
              /\ IF goesOn
                 THEN /\ sSent' = [sSent EXCEPT ![p] = Append(sSent[p],
                             S3Request("ListObjectsV2", sLocal[p].bucket,
                                       last.client, Some(maxKeysOf(a, count)),
                                       page.NextContinuationToken))]
                      /\ UNCHANGED <<spc, sResult>>
                 ELSE /\ spc' = [spc EXCEPT ![p] = "returned"]
                      /\ sResult' = [sResult EXCEPT ![p] = Some(Resolved(value))]
                      /\ UNCHANGED sSent
    /\ UNCHANGED <<sEnv, allowedBuckets, s3Clients, bucketRegionCache, sCreated,
                   sArgs>>
    /\ UNCHANGED notS3Vars

\* A GetObject, PutObject or ListObjectsV2 request is refused: the tool
\* rejects with the formatted message.
S3RequestFails(p) ==
    /\ spc[p] \in {"sending", "listing"}
    /\ spc' = [spc EXCEPT ![p] = "rejected"]
    /\ sResult' = [sResult EXCEPT ![p] =
           Some(Rejected(formatAwsErrorMessage(
                             [name |-> "AccessDenied", message |-> << >>])))]
    /\ UNCHANGED <<sEnv, allowedBuckets, s3Clients, bucketRegionCache, sCreated,
                   sArgs, sLocal, sSent>>
    /\ UNCHANGED notS3Vars

NextS3 ==
    \/ LoadModules
    \/ \E p \in Procs : CallS3Tool(p)
    \/ \E p \in Procs : GetBucketLocationReturns(p)
    \/ \E p \in Procs : GetBucketLocationFails(p)
    \/ \E p \in Procs : ObjectRequestReturns(p)
    \/ \E p \in Procs : ListObjectsReturns(p)
    \/ \E p \in Procs : S3RequestFails(p)

SpecS3 == Init /\ [][NextS3]_vars

-----------------------------------------------------------------------------
(* Observations on the connection log of queryMysqlRds.                     *)

opsOf(log) == [k \in 1..Len(log) |-> log[k].op]

countOp(log, op) == Cardinality({k \in 1..Len(log) : log[k].op = op})

rdsSettled == rpc \in {"returned", "rejected"}

\* C23 (as stated): RDS queries are read-only. Every statement sent to the
\* database passed the prefix test and is a read, no statement that writes
\* or destroys is ever sent, and a statement that fails the prefix test is
\* rejected with OnlyReadQueriesAllowed with no connection created.
C23_ReadOnly ==
    /\ \A k \in 1..Len(rLog) :
          rLog[k].op = "query" =>
              /\ isReadOnlySql(rLog[k].sql.text)
              /\ rLog[k].sql.effect = "read"
    /\ (rpc # "idle" /\ ~isReadOnlySql(rArgs.sql.text)) =>
          /\ rLog = << >>
          /\ rpc = "rejected"
          /\ rResult = Some(Rejected("OnlyReadQueriesAllowed"))

\* C30: queryMysqlRds never leaks a connection. connection.end is called at
\* most once; a settled call whose connection opened has called it exactly
\* once, after the query was sent; a call whose connection never opened has
\* not called it; and a returned result has rowCount equal to the number of
\* its rows, at most maxRows and at most the rows the database returned.
C30_NoLeak ==
    /\ countOp(rLog, "end") <= 1
    /\ countOp(rLog, "end") <= countOp(rLog, "connected")
    /\ (rdsSettled /\ countOp(rLog, "connected") = 1) =>
          /\ countOp(rLog, "end") = 1
          /\ opsOf(rLog) = <<"createConnection", "connected", "query", "end">>
    /\ rpc = "returned" =>
          /\ rResult[1].ok
          /\ rResult[1].value.rowCount = Len(rResult[1].value.rows)
          /\ rResult[1].value.rowCount <= rArgs.maxRows
          /\ rResult[1].value.rows
                = SubSeq(rPending[1].outcome.rows, 1, rResult[1].value.rowCount)

\* A call whose query was rejected by the database after the connection
\* opened: the connection was ended once and the call rejects with the
\* query's error.
C30_Witness ==
    /\ rpc = "rejected"
    /\ rResult = Some(Rejected("ER_PARSE_ERROR"))
    /\ opsOf(rLog) = <<"createConnection", "connected", "query", "end">>

-----------------------------------------------------------------------------
(* Observations on the S3 tool calls.                                       *)

\* The calls that have been made.
s3Called == {p \in Procs : spc[p] # "idle"}

\* The bucket-location lookups call p has sent.
lookupsSent(p) ==
    {k \in 1..Len(sSent[p]) : sSent[p][k].op = "GetBucketLocation"}

C26_CachesSafe ==
    /\ \A i, j \in 1..Len(sCreated) : sCreated[i] = sCreated[j] => i = j
    /\ \A e \in s3Clients : e[2] \in 1..Len(sCreated) /\ sCreated[e[2]] = e[1]
    /\ \A e \in bucketRegionCache :
          /\ e[2] \in {normalizeBucketRegion(locationOf(e[1]).LocationConstraint),
                       normalizeBucketRegion(Some(locationOf(e[1]).header))}
          /\ \A f \in bucketRegionCache : f[1] = e[1] => f = e
    /\ \A p \in s3Called :
          (sLocal[p] # << >> /\ IsDefined(sLocal[p].cachedRegion)) =>
              /\ lookupsSent(p) = {}
              /\ IsDefined(sLocal[p].s3Client)
              /\ <<sLocal[p].cachedRegion[1], sLocal[p].s3Client[1]>> \in s3Clients

\* Two calls for the same bucket both started before its region was cached:
\* both looked it up, both stored it, and they hold the same client, the
\* only one constructed for that region.
C26_Witness ==
    /\ \A p \in Procs :
          /\ sLocal[p] # << >>
          /\ sLocal[p].bucket = DataBucket
          /\ sLocal[p].cachedRegion = Undefined
          /\ lookupsSent(p) # {}
          /\ IsDefined(sLocal[p].s3Client)
    /\ sLocal[1].s3Client = sLocal[2].s3Client
    /\ bucketRegionCache = {<<DataBucket, "eu-west-1">>}
    /\ sCreated = <<"us-east-1", "eu-west-1">>

-----------------------------------------------------------------------------
(* serveStatic, src/src/web.ts:68-90. Paths are sequences of characters.    *)

\* const publicDir = path.resolve(__dirname, "..", "public"), line 15, for
\* an installation under /srv/app
publicDir == <<"/", "s", "r", "v", "/", "a", "p", "p", "/", "p", "u", "b", "l", "i", "c">>

HexDigits ==
    {"0", "1", "2", "3", "4", "5", "6", "7", "8", "9",
     "a", "b", "c", "d", "e", "f", "A", "B", "C", "D", "E", "F"}

\* The character a percent escape stands for. The escapes of the request
\* paths drawn here are %2f, %2e, %20 and %25 in either case.
unescape(h1, h2) ==
    LET pair == toLowerCase(<<h1, h2>>)
    IN  IF pair = <<"2", "f">> THEN "/"
        ELSE IF pair = <<"2", "e">> THEN "."
        ELSE IF pair = <<"2", "0">> THEN " "
        ELSE "%"

\* decodeURIComponent: the decoded text, or Undefined where it throws
\* URIError (a % not followed by two hexadecimal digits)
RECURSIVE decodeURIComponent(_)
decodeURIComponent(chars) ==
    IF chars = << >> THEN Some(<< >>)
    ELSE IF Head(chars) # "%"
    THEN LET rest == decodeURIComponent(Tail(chars))
         IN  IF rest = Undefined THEN Undefined
             ELSE Some(<<Head(chars)>> \o rest[1])
    ELSE IF Len(chars) >= 3 /\ chars[2] \in HexDigits /\ chars[3] \in HexDigits
    THEN LET rest == decodeURIComponent(SubSeq(chars, 4, Len(chars)))
         IN  IF rest = Undefined THEN Undefined
             ELSE Some(<<unescape(chars[2], chars[3])>> \o rest[1])
    ELSE Undefined

\* The segments of a POSIX path after normalisation: empty segments and "."
\* dropped, ".." removing the segment before it (none above the root).
RECURSIVE resolveSegments(_, _)
resolveSegments(done, rest) ==
    IF rest = << >> THEN done
    ELSE IF Head(rest) = << >> \/ Head(rest) = <<".">>
    THEN resolveSegments(done, Tail(rest))
    ELSE IF Head(rest) = <<".", ".">>
    THEN resolveSegments(IF done = << >> THEN done
                         ELSE SubSeq(done, 1, Len(done) - 1), Tail(rest))
    ELSE resolveSegments(Append(done, Head(rest)), Tail(rest))

RECURSIVE joinSegments(_)
joinSegments(segments) ==
    IF segments = << >> THEN << >>
    ELSE <<"/">> \o Head(segments) \o joinSegments(Tail(segments))

\* path.resolve(base, relative) for an absolute base and a path that does
\* not start with "/"
pathResolve(base, relative) ==
    LET segments == resolveSegments(<< >>, split(base \o <<"/">> \o relative, "/"))
    IN  IF segments = << >> THEN <<"/">> ELSE joinSegments(segments)

\* String.prototype.endsWith
endsWith(chars, suffix) ==
    /\ Len(chars) >= Len(suffix)
    /\ SubSeq(chars, Len(chars) - Len(suffix) + 1, Len(chars)) = suffix

\* contentTypeFor, lines 17-40, on the extensions of the files served here
contentTypeFor(filePath) ==
    LET lower == toLowerCase(filePath)
    IN  IF endsWith(lower, <<".", "h", "t", "m", "l">>)
        THEN "text/html; charset=utf-8"
        ELSE IF endsWith(lower, <<".", "j", "s">>) THEN "text/javascript; charset=utf-8"
        ELSE "application/octet-stream"

\* ---- environment ----

\* The files of the installation: two in the public directory, one in a
\* directory next to it whose name starts with "public", one above it.
Files ==
    {publicDir \o <<"/", "i", "n", "d", "e", "x", ".", "h", "t", "m", "l">>,
     publicDir \o <<"/", "a", "p", "p", ".", "j", "s">>,
     publicDir \o <<"-", "o", "l", "d", "/", "k", "e", "y", ".", "p", "e", "m">>,
     <<"/", "s", "r", "v", "/", "a", "p", "p", "/", ".", "e", "n", "v">>}

PathNames ==
    {<<"a", "p", "p", ".", "j", "s">>, <<".", ".">>, <<"%", "2", "e", "%", "2", "E">>,
     <<"p", "u", "b", "l", "i", "c", "-", "o", "l", "d">>, <<"k", "e", "y", ".", "p", "e", "m">>, <<".", "e", "n", "v">>, <<"%", "z", "z">>}

PathSeparators == {<<"/">>, <<"%", "2", "f">>}

\* A dot segment, which the URL parser removes from a pathname ("%2e"
\* counts as ".").
isDotSegment(segment) ==
    LET decoded == decodeURIComponent(segment)
    IN  /\ \A k \in 1..Len(segment) : segment[k] \in {".", "%", "2", "e", "E"}
        /\ decoded \in {Some(<<".">>), Some(<<".", ".">>)}

\* A string url.pathname can be (line 114): it has no dot segment left.
isUrlPathname(chars) ==
    LET segments == split(chars, "/")
    IN  \A k \in 1..Len(segments) : ~isDotSegment(segments[k])

\* The request paths drawn: "/" and paths of up to three names.
RequestPaths ==
    {chars \in
        {<<"/">>}
        \cup {<<"/">> \o a : a \in PathNames}
        \cup {<<"/">> \o a \o s \o b :
                 a \in PathNames, s \in PathSeparators, b \in PathNames}
        \cup {<<"/">> \o a \o s \o b \o t \o c :
                 a \in PathNames, s \in PathSeparators, b \in PathNames,
                 t \in PathSeparators, c \in {<<"k", "e", "y", ".", "p", "e", "m">>, <<".", "e", "n", "v">>}} :
        isUrlPathname(chars)}

Response(statusCode, body) == [statusCode |-> statusCode, body |-> body]

notWebVars == <<pipeVars, callVars, listVars, metricVars, rdsVars, s3Vars>>

\* The test of line 74.
insidePublicDir(resolved) == startsWith(resolved, publicDir)

\* serveStatic up to its await, lines 69-80. A URIError of
\* decodeURIComponent leaves serveStatic and the request handler answers
\* 500 (lines 149-151).
ServeStatic ==
    /\ wpc = "idle"
    /\ \E reqUrlPath \in RequestPaths :
          LET urlPath == IF reqUrlPath = <<"/">> THEN <<"/", "i", "n", "d", "e", "x", ".", "h", "t", "m", "l">>
                         ELSE reqUrlPath
              decoded == decodeURIComponent(urlPath)
              resolved == pathResolve(publicDir, <<".">> \o decoded[1])
          IN  /\ wRequest' = Some(reqUrlPath)
              /\ IF decoded = Undefined
                 THEN /\ wResponse' = Some(Response(500, "URI malformed"))
                      /\ wpc' = "done"
                      /\ UNCHANGED wReads
                 ELSE IF ~insidePublicDir(resolved)
                 THEN /\ wResponse' = Some(Response(400, "Bad path"))
                      /\ wpc' = "done"
                      /\ UNCHANGED wReads
                 ELSE /\ wReads' = Append(wReads, resolved)
                      /\ wpc' = "reading"
                      /\ UNCHANGED wResponse
    /\ UNCHANGED notWebVars

\* fs.readFile resolves, lines 80-86: the file is sent.
ReadFileReturns ==
    /\ wpc = "reading"
    /\ wReads[Len(wReads)] \in Files
    /\ wResponse' = Some([statusCode |-> 200,
                          body |-> wReads[Len(wReads)],
                          contentType |-> contentTypeFor(wReads[Len(wReads)])])
    /\ wpc' = "done"
    /\ UNCHANGED <<wRequest, wReads>>
    /\ UNCHANGED notWebVars

\* fs.readFile rejects, lines 87-89.
ReadFileFails ==
    /\ wpc = "reading"
    /\ wResponse' = Some(Response(404, "Not found"))
    /\ wpc' = "done"
    /\ UNCHANGED <<wRequest, wReads>>
    /\ UNCHANGED notWebVars

NextWeb ==
    \/ ServeStatic
    \/ ReadFileReturns
    \/ ReadFileFails

SpecWeb == Init /\ [][NextWeb]_vars

\* A path below the public directory.
isDescendant(chars, dir) ==
    startsWith(chars, dir \o <<"/">>) /\ Len(chars) > Len(dir) + 1

\* C27 (as stated): the static file server blocks directory traversal. A
\* request is answered 400 'Bad path' with nothing read, or a file below
\* the public directory is read; no path outside the public directory is
\* ever handed to fs.readFile.
C27_NoTraversal ==
    /\ \A k \in 1..Len(wReads) : isDescendant(wReads[k], publicDir)
    /\ wpc # "idle" =>
          \/ wReads # << >>
          \/ wResponse = Some(Response(400, "Bad path"))

====
